---------------------------- MODULE Spec2Model ----------------------------
(***************************************************************************)
(* A model of the treatment_rag question-answering core:                   *)
(*   - GenerationIntegrationModule.query_router and _build_context         *)
(*     (rag_modules/generation_integration.py),                            *)
(*   - DataPreparationModule.get_parent_documents and                      *)
(*     GuidelineDataPreparationModule.get_parent_documents                 *)
(*     (rag_modules/data_preparation.py),                                  *)
(*   - RecipeRAGSystem.__init__, initialize_system, build_knowledge_base   *)
(*     and ask_question (main.py).                                         *)
(*                                                                         *)
(* Text is modelled as a sequence of one-character strings (router) or as  *)
(* a run-length encoded sequence of [ch, n] runs (context composer), so    *)
(* that len(), strip(), lower(), join() and concatenation are computed as  *)
(* Python computes them.                                                   *)
(***************************************************************************)
EXTENDS Integers, Sequences, FiniteSets, TLC

VARIABLES
    rag,        \* the RecipeRAGSystem object: its seven module attributes
    documents,  \* self.documents of the data-preparation module in use
    op,         \* the operation that ran last ("none" before any)
    inp,        \* the arguments and collaborator outcomes of that operation
    result,     \* what the operation returned or raised
    calls,      \* the collaborators the operation invoked, in order
    category_labels,  \* DataPreparationModule.CATEGORY_LABELS
    build_status,  \* build_knowledge_base: "not run", "failed" or "completed"
    chunks,     \* self.chunks of the data-preparation module in use
    parent_child_map,  \* self.parent_child_map of that module
    files,      \* the *.md files under its data_path, in rglob order
    uuids,      \* how many identifiers uuid.uuid4() has handed out
    gen,        \* the generator object a caller iterates over, if any
    consumer    \* the caller that iterates over it: its pulls and what they gave

vars == <<rag, documents, op, inp, result, calls, category_labels, build_status,
          chunks, parent_child_map, files, uuids, gen, consumer>>

None == "None"

(***************************************************************************)
(* The category table of the flat corpus and the label list built from it. *)
(***************************************************************************)
\* data_preparation.py, CATEGORY_MAPPING: keyword -> label, in table order.
\* The labels are named by their code points.
CATEGORY_MAPPING ==
    << <<"fracture", "U+9AA8 U+6298">>,
       <<"hemangioma", "U+8840 U+7BA1 U+7624">>,
       <<"infection", "U+611F U+67D3">>,
       <<"intervertebral", "U+690E U+95F4 U+76D8 U+95EE U+9898">>,
       <<"malignant_tumor", "U+6076 U+6027 U+80BF U+7624">>,
       <<"others", "U+5176 U+4ED6 U+7C7B U+578B U+75BE U+75C5">> >>

LabelFracture == CATEGORY_MAPPING[1][2]
LabelInfection == CATEGORY_MAPPING[3][2]

\* CATEGORY_LABELS = list(set(CATEGORY_MAPPING.values())): the six labels in
\* the iteration order of a set of strings, which the interpreter's string
\* hashing decides when the class is created.  Two such orders.
TableOrder == [k \in 1..6 |-> CATEGORY_MAPPING[k][2]]

LabelOrders == { TableOrder, [k \in 1..6 |-> CATEGORY_MAPPING[7 - k][2]] }

(***************************************************************************)
(* Bounds of the model.                                                    *)
(***************************************************************************)
MaxPad == 1        \* whitespace characters around a router response
MaxChunks == 5     \* retrieved fragments handed to a Parent Resolver
MaxDocs == 3       \* documents handed to the Context Composer

(***************************************************************************)
(* Characters and Python's str.strip() / str.lower().                      *)
(***************************************************************************)
Whitespace == {" ", "\t", "\n"}

UpperOf == [l |-> "L", i |-> "I", s |-> "S", t |-> "T", d |-> "D", e |-> "E",
            a |-> "A", g |-> "G", n |-> "N", r |-> "R", h |-> "H"]

UpperChar(c) == IF c \in DOMAIN UpperOf THEN UpperOf[c] ELSE c

LowerChar(c) ==
    IF \E k \in DOMAIN UpperOf : UpperOf[k] = c
    THEN CHOOSE k \in DOMAIN UpperOf : UpperOf[k] = c
    ELSE c

RECURSIVE lstrip(_)
lstrip(s) ==
    IF s = <<>> THEN s
    ELSE IF Head(s) \in Whitespace THEN lstrip(Tail(s)) ELSE s

RECURSIVE rstrip(_)
rstrip(s) ==
    IF s = <<>> THEN s
    ELSE IF s[Len(s)] \in Whitespace THEN rstrip(SubSeq(s, 1, Len(s) - 1)) ELSE s

strip(s) == rstrip(lstrip(s))

lower(s) == [k \in 1..Len(s) |-> LowerChar(s[k])]

(***************************************************************************)
(* Query Router: generation_integration.py, query_router.                  *)
(***************************************************************************)
LabelList == <<"l", "i", "s", "t">>
LabelDetail == <<"d", "e", "t", "a", "i", "l">>
LabelGeneral == <<"g", "e", "n", "e", "r", "a", "l">>

RouteLabels == {LabelList, LabelDetail, LabelGeneral}

\* A router that returns the normalised response without the fallback.
query_router_nofallback(response) == lower(strip(response))

\* result = chain.invoke(query).strip().lower(); a valid label is returned,
\* anything else becomes 'general'.
query_router(response) ==
    LET res == lower(strip(response))
    IN  IF res \in RouteLabels THEN res ELSE LabelGeneral


(***************************************************************************)
(* Backend responses offered to the router: every case variant of the      *)
(* three labels, and texts that are no label (empty, a label inside a      *)
(* sentence, a label with punctuation, two labels, a split label), each    *)
(* with up to MaxPad whitespace characters on either side.                 *)
(***************************************************************************)
CaseVariants(s) ==
    { [k \in 1..Len(s) |-> IF k \in U THEN UpperChar(s[k]) ELSE s[k]] :
        U \in SUBSET (1..Len(s)) }

NonLabelCores ==
    { <<>>,
      <<"t", "h", "e", " ", "l", "i", "s", "t">>,
      <<"l", "i", "s", "t", ".">>,
      <<"'", "l", "i", "s", "t", "'">>,
      <<"l", "i", "s", "t", "s">>,
      <<"l", "i", " ", "s", "t">>,
      <<"l", "i", "s", "t", " ", "d", "e", "t", "a", "i", "l">>,
      <<"D", "e", "t", "a", "i", "l", "\n", "x">>,
      <<"d", "e", "t", "a", "i">>,
      <<"g", "e", "n", "e", "r", "a", "l", ":">>,
      <<"x">> }

ResponseCores ==
    CaseVariants(LabelList) \cup CaseVariants(LabelDetail)
        \cup CaseVariants(LabelGeneral) \cup NonLabelCores

Pads == UNION { [1..n -> Whitespace] : n \in 0..MaxPad }

Response(p, c, q) == p \o c \o q

(***************************************************************************)
(* The state every specification starts from: a freshly constructed        *)
(* RecipeRAGSystem (main.py, __init__) and no operation run yet.           *)
(***************************************************************************)
Constructed ==
    [case_report_data_module |-> None,
     guideline_data_module |-> None,
     index_module |-> None,
     guideline_index_module |-> None,
     case_report_retrieval_module |-> None,
     guideline_retrieval_module |-> None,
     generation_module |-> None]

NoResult == [kind |-> "none"]

\* No generator object exists; nobody iterates.
NoGenerator == [frame |-> "none"]

NoConsumer == [pulls |-> 0, received |-> <<>>, stopped |-> FALSE]

(***************************************************************************)
(* SpecRouter: one call of query_router, for every padded response.        *)
(***************************************************************************)
InitRouter ==
    /\ rag = Constructed
    /\ documents = <<>>
    /\ op = "none"
    /\ inp = <<>>
    /\ result = NoResult
    /\ calls = <<>>
    /\ category_labels = TableOrder
    /\ build_status = "not run"
    /\ chunks = <<>>
    /\ parent_child_map = <<>>
    /\ files = <<>>
    /\ uuids = 0
    /\ gen = NoGenerator
    /\ consumer = NoConsumer

\* One call of query_router; response is what chain.invoke(query) returned.
QueryRouter ==
    /\ op = "none"
    /\ \E p \in Pads, c \in ResponseCores, q \in Pads :
           /\ op' = "query_router"
           /\ inp' = [response |-> Response(p, c, q)]
           /\ calls' = <<"llm.invoke">>
           /\ result' = [kind |-> "return",
                         value |-> query_router(Response(p, c, q))]
    /\ UNCHANGED <<rag, documents, category_labels, build_status,
                 chunks, parent_child_map, files, uuids,
                 gen, consumer>>

NextRouter == QueryRouter

SpecRouter == InitRouter /\ [][NextRouter]_vars

\* The text s is the label L in any letter case with only whitespace around it.
IsPaddedLabel(s, L) ==
    \E i \in 0..Len(s) :
        /\ i + Len(L) <= Len(s)
        /\ \A k \in 1..Len(s) :
               IF k > i /\ k <= i + Len(L)
               THEN LowerChar(s[k]) = L[k - i]
               ELSE s[k] \in Whitespace

\* C1: query_router returns one of list, detail, general for every backend
\* response: the label the response spells once whitespace around it and letter
\* case are disregarded, and general for every response that spells no label
\* (empty text and text that merely contains a label included).
C1_RouterTotalWithFallback ==
    op = "query_router" =>
        /\ result.value \in RouteLabels
        /\ IF \E L \in RouteLabels : IsPaddedLabel(inp.response, L)
           THEN IsPaddedLabel(inp.response, result.value)
           ELSE result.value = LabelGeneral

\* A response that merely contains a label has been routed to general.
C1_Witness ==
    /\ op = "query_router"
    /\ inp.response = <<"t", "h", "e", " ", "l", "i", "s", "t", "\n">>
    /\ result.value = LabelGeneral

(***************************************************************************)
(* Documents.  A langchain Document is a record [page_content, metadata];  *)
(* metadata is a Python dict, modelled as a function whose domain is the   *)
(* set of keys present.                                                    *)
(***************************************************************************)
\* dict.get(key): the value, or None when the key is absent.
MetaGet(metadata, key) ==
    IF key \in DOMAIN metadata THEN metadata[key] ELSE None

\* Python truthiness of an identifier: None and the empty string are falsy.
Truthy(x) == x /= None /\ x /= ""

\* An insertion-ordered dict of counters: keys in insertion order, val their values.
EmptyDict == [keys |-> <<>>, val |-> <<>>]

\* d[k] = d.get(k, 0) + 1
DictIncr(d, k) ==
    IF k \in DOMAIN d.val
    THEN [d EXCEPT !.val[k] = @ + 1]
    ELSE [keys |-> Append(d.keys, k), val |-> d.val @@ (k :> 1)]

(***************************************************************************)
(* Parent Resolver, flat corpus: data_preparation.py,                      *)
(* DataPreparationModule.get_parent_documents.                             *)
(***************************************************************************)
\* Lines 330-334: count the fragments per truthy parent_id, in input order.
RECURSIVE parent_relevance(_, _)
parent_relevance(child_chunks, acc) ==
    IF child_chunks = <<>> THEN acc
    ELSE LET parent_id == MetaGet(Head(child_chunks).metadata, "parent_id")
         IN  parent_relevance(Tail(child_chunks),
                 IF Truthy(parent_id) THEN DictIncr(acc, parent_id) ELSE acc)

\* Lines 337-341: the first document of self.documents with this parent_id.
HasParent(docs, parent_id) ==
    \E k \in 1..Len(docs) : MetaGet(docs[k].metadata, "parent_id") = parent_id

FirstParent(docs, parent_id) ==
    LET k == CHOOSE k \in 1..Len(docs) :
                 /\ MetaGet(docs[k].metadata, "parent_id") = parent_id
                 /\ \A m \in 1..(k - 1) :
                        MetaGet(docs[m].metadata, "parent_id") /= parent_id
    IN  docs[k]

\* Lines 344-346: sorted(keys, key=count, reverse=True).  Python's sort is
\* stable, also with reverse=True: keys of equal count keep their order.
RECURSIVE sorted_by_relevance(_, _, _)
sorted_by_relevance(keys, val, out) ==
    IF keys = <<>> THEN out
    ELSE LET k == Head(keys)
             \* k goes after every key already placed whose count is >= its own
             p == Cardinality({m \in 1..Len(out) : val[out[m]] >= val[k]})
         IN  sorted_by_relevance(Tail(keys), val,
                 SubSeq(out, 1, p) \o <<k>> \o SubSeq(out, p + 1, Len(out)))

\* Lines 349-352: the documents of the sorted ids that were found.
RECURSIVE collect_parents(_, _)
collect_parents(docs, sorted_parent_ids) ==
    IF sorted_parent_ids = <<>> THEN <<>>
    ELSE (IF HasParent(docs, Head(sorted_parent_ids))
          THEN <<FirstParent(docs, Head(sorted_parent_ids))>>
          ELSE <<>>)
         \o collect_parents(docs, Tail(sorted_parent_ids))

\* A resolver that looks every sorted id up without the membership test of
\* line 351: an id that was not found raises KeyError.
get_parent_documents_unchecked(docs, child_chunks) ==
    LET rel == parent_relevance(child_chunks, EmptyDict)
        ids == sorted_by_relevance(rel.keys, rel.val, <<>>)
    IN  IF \E k \in 1..Len(ids) : ~HasParent(docs, ids[k])
        THEN [kind |-> "raise", error |-> "KeyError"]
        ELSE [kind |-> "return", value |-> collect_parents(docs, ids)]

\* A resolver that keeps the ids in first-encountered order (no sort by count).
get_parent_documents_unsorted(docs, child_chunks) ==
    LET rel == parent_relevance(child_chunks, EmptyDict)
    IN  [kind |-> "return", value |-> collect_parents(docs, rel.keys)]

get_parent_documents(docs, child_chunks) ==
    LET rel == parent_relevance(child_chunks, EmptyDict)
        sorted_parent_ids == sorted_by_relevance(rel.keys, rel.val, <<>>)
    IN  [kind |-> "return", value |-> collect_parents(docs, sorted_parent_ids)]

(***************************************************************************)
(* Parent Resolver, hierarchical corpus: data_preparation.py,              *)
(* GuidelineDataPreparationModule.get_parent_documents.                    *)
(***************************************************************************)
\* Line 582: {doc.metadata["parent_id"]: doc for doc in self.documents}; a later
\* document with the same id replaces an earlier one.
LastParent(docs, parent_id) ==
    LET k == CHOOSE k \in 1..Len(docs) :
                 /\ docs[k].metadata["parent_id"] = parent_id
                 /\ \A m \in (k + 1)..Len(docs) :
                        docs[m].metadata["parent_id"] /= parent_id
    IN  docs[k]

InParentMap(docs, parent_id) ==
    \E k \in 1..Len(docs) : docs[k].metadata["parent_id"] = parent_id

\* Lines 584-590: one pass over the fragments; parent_ids is the set of ids
\* already emitted, retrieved_parents the output so far.
RECURSIVE retrieve_parents(_, _, _, _)
retrieve_parents(docs, child_chunks, parent_ids, retrieved_parents) ==
    IF child_chunks = <<>> THEN retrieved_parents
    ELSE LET p_id == MetaGet(Head(child_chunks).metadata, "parent_id")
         IN  IF Truthy(p_id) /\ p_id \notin parent_ids /\ InParentMap(docs, p_id)
             THEN retrieve_parents(docs, Tail(child_chunks), parent_ids \cup {p_id},
                      Append(retrieved_parents, LastParent(docs, p_id)))
             ELSE retrieve_parents(docs, Tail(child_chunks), parent_ids,
                      retrieved_parents)

\* A hierarchical resolver that ranks by relevance count as the flat one does.
guideline_get_parent_documents_ranked(docs, child_chunks) ==
    get_parent_documents(docs, child_chunks)

\* A hierarchical resolver without the "not in parent_ids" test of line 586.
RECURSIVE retrieve_parents_nodedup(_, _)
retrieve_parents_nodedup(docs, child_chunks) ==
    IF child_chunks = <<>> THEN <<>>
    ELSE LET p_id == MetaGet(Head(child_chunks).metadata, "parent_id")
         IN  (IF Truthy(p_id) /\ InParentMap(docs, p_id)
              THEN <<LastParent(docs, p_id)>> ELSE <<>>)
             \o retrieve_parents_nodedup(docs, Tail(child_chunks))

guideline_get_parent_documents_nodedup(docs, child_chunks) ==
    [kind |-> "return", value |-> retrieve_parents_nodedup(docs, child_chunks)]

guideline_get_parent_documents(docs, child_chunks) ==
    [kind |-> "return", value |-> retrieve_parents(docs, child_chunks, {}, <<>>)]

(***************************************************************************)
(* SpecResolver: both Parent Resolvers applied to every list of at most    *)
(* MaxChunks fragments over three parent ids, the empty id and fragments   *)
(* without a parent_id key, against ingested document lists that hold all, *)
(* some or none of the three parents.                                      *)
(***************************************************************************)
ParentIds == {"A", "B", "C"}

\* A parent document as load_documents builds it (parent_id is always set).
ParentDoc(id) ==
    [page_content |-> <<[ch |-> id, n |-> 1]>>,
     metadata |-> [parent_id |-> id, doc_type |-> "parent"]]

NoKey == "<no parent_id key>"

\* A retrieved fragment: its metadata names a parent id, or has no such key.
ChildChunk(p) ==
    IF p = NoKey
    THEN [page_content |-> <<[ch |-> "x", n |-> 1]>>,
          metadata |-> [doc_type |-> "child"]]
    ELSE [page_content |-> <<[ch |-> "x", n |-> 1]>>,
          metadata |-> [parent_id |-> p, doc_type |-> "child"]]

ChunkRefs == ParentIds \cup {"", NoKey}

\* The fragment list whose k-th fragment references refs[k].
ChunksOf(refs) == [k \in 1..Len(refs) |-> ChildChunk(refs[k])]

DocLists ==
    { <<>>,
      <<ParentDoc("A"), ParentDoc("B"), ParentDoc("C")>>,
      <<ParentDoc("C"), ParentDoc("A"), ParentDoc("B")>>,
      <<ParentDoc("B"), ParentDoc("A")>>,
      <<ParentDoc("C")>> }

InitResolver ==
    /\ rag = Constructed
    /\ documents \in DocLists
    /\ op = "none"
    /\ inp = <<>>
    /\ result = NoResult
    /\ calls = <<>>
    /\ category_labels = TableOrder
    /\ build_status = "not run"
    /\ chunks = <<>>
    /\ parent_child_map = <<>>
    /\ files = <<>>
    /\ uuids = 0
    /\ gen = NoGenerator
    /\ consumer = NoConsumer

\* One call of DataPreparationModule.get_parent_documents(child_chunks).
GetParentDocuments ==
    /\ op = "none"
    /\ \E n \in 0..MaxChunks : \E refs \in [1..n -> ChunkRefs] :
           /\ op' = "get_parent_documents"
           /\ inp' = [child_chunks |-> ChunksOf(refs)]
           /\ result' = get_parent_documents(documents, ChunksOf(refs))
    /\ UNCHANGED <<rag, documents, calls, category_labels, build_status,
                 chunks, parent_child_map, files, uuids,
                 gen, consumer>>

\* One call of GuidelineDataPreparationModule.get_parent_documents(child_chunks).
GuidelineGetParentDocuments ==
    /\ op = "none"
    /\ \E n \in 0..MaxChunks : \E refs \in [1..n -> ChunkRefs] :
           /\ op' = "guideline_get_parent_documents"
           /\ inp' = [child_chunks |-> ChunksOf(refs)]
           /\ result' = guideline_get_parent_documents(documents, ChunksOf(refs))
    /\ UNCHANGED <<rag, documents, calls, category_labels, build_status,
                 chunks, parent_child_map, files, uuids,
                 gen, consumer>>

NextResolver == GetParentDocuments \/ GuidelineGetParentDocuments

SpecResolver == InitResolver /\ [][NextResolver]_vars

(***************************************************************************)
(* What the Parent Resolver claims speak of, stated on the input list.     *)
(***************************************************************************)
RefOf(chunk) == MetaGet(chunk.metadata, "parent_id")

\* Relevance count: the number of input fragments referencing the parent.
RelevanceCount(child_chunks, id) ==
    Cardinality({k \in 1..Len(child_chunks) : RefOf(child_chunks[k]) = id})

\* Position of the first input fragment referencing the parent.
FirstPos(child_chunks, id) ==
    CHOOSE k \in 1..Len(child_chunks) :
        /\ RefOf(child_chunks[k]) = id
        /\ \A m \in 1..(k - 1) : RefOf(child_chunks[m]) /= id

Ingested(id) == \E k \in 1..Len(documents) : documents[k].metadata.parent_id = id

Referenced(child_chunks, id) == \E k \in 1..Len(child_chunks) : RefOf(child_chunks[k]) = id

Resolvable(chunk) == Truthy(RefOf(chunk)) /\ Ingested(RefOf(chunk))

OutIds == [k \in 1..Len(result.value) |-> result.value[k].metadata.parent_id]

\* Descending relevance count, ties by the position of the first fragment.
RankedOutput ==
    \A i, j \in 1..Len(result.value) :
        i < j =>
            \/ RelevanceCount(inp.child_chunks, OutIds[i])
                   > RelevanceCount(inp.child_chunks, OutIds[j])
            \/ /\ RelevanceCount(inp.child_chunks, OutIds[i])
                      = RelevanceCount(inp.child_chunks, OutIds[j])
               /\ FirstPos(inp.child_chunks, OutIds[i])
                      < FirstPos(inp.child_chunks, OutIds[j])

\* The output holds exactly the ingested parents some fragment references.
OutputIsReferencedParents ==
    /\ \A k \in 1..Len(result.value) :
           \E m \in 1..Len(documents) : result.value[k] = documents[m]
    /\ { OutIds[k] : k \in 1..Len(result.value) }
           = { id \in ParentIds : Referenced(inp.child_chunks, id) /\ Ingested(id) }

\* C4: DataPreparationModule.get_parent_documents, given fragments whose
\* parents all exist, returns those parents by descending relevance count, and
\* parents of equal count by the position of their first fragment in the input.
C4_FlatResolverRanked ==
    (/\ op = "get_parent_documents"
     /\ \A k \in 1..Len(inp.child_chunks) : Resolvable(inp.child_chunks[k]))
        => /\ result.kind = "return"
           /\ OutputIsReferencedParents
           /\ RankedOutput

\* Fragments with parents [A,A,B,A,C] have been resolved to [A,B,C], counts 3,1,1.
C4_Witness ==
    /\ op = "get_parent_documents"
    /\ inp.child_chunks = ChunksOf(<<"A", "A", "B", "A", "C">>)
    /\ OutIds = <<"A", "B", "C">>
    /\ RelevanceCount(inp.child_chunks, "A") = 3
    /\ RelevanceCount(inp.child_chunks, "B") = 1
    /\ RelevanceCount(inp.child_chunks, "C") = 1

Occurrences(doc) ==
    Cardinality({k \in 1..Len(result.value) : result.value[k] = doc})

\* C6: for both Parent Resolvers and every input list, each ingested parent is
\* in the output exactly once if some fragment references it and not at all
\* otherwise, and the output holds nothing but ingested documents.
C6_EachParentOnce ==
    op \in {"get_parent_documents", "guideline_get_parent_documents"} =>
        /\ result.kind = "return"
        /\ \A m \in 1..Len(documents) :
               Occurrences(documents[m]) =
                   IF Referenced(inp.child_chunks, documents[m].metadata.parent_id)
                   THEN 1 ELSE 0
        /\ \A k \in 1..Len(result.value) :
               \E m \in 1..Len(documents) : result.value[k] = documents[m]

\* Three fragments of B and two of A have been resolved to one B and one A,
\* and the ingested parent C, which no fragment references, is not in the output.
C6_Witness ==
    /\ op = "guideline_get_parent_documents"
    /\ inp.child_chunks = ChunksOf(<<"B", "A", "B", "A", "B">>)
    /\ Ingested("C")
    /\ OutIds = <<"B", "A">>

\* The input without the fragments whose parent cannot be resolved.
ResolvableOnly(child_chunks) == SelectSeq(child_chunks, Resolvable)

\* C7: a fragment whose parent id is not ingested, or that carries no parent
\* id, does not make either resolver raise; the output is what the resolver
\* returns for the input without those fragments.
C7_UnresolvableSkipped ==
    /\ op = "get_parent_documents" =>
           /\ result.kind = "return"
           /\ result = get_parent_documents(documents,
                           ResolvableOnly(inp.child_chunks))
    /\ op = "guideline_get_parent_documents" =>
           /\ result.kind = "return"
           /\ result = guideline_get_parent_documents(documents,
                           ResolvableOnly(inp.child_chunks))

\* A fragment of C (not ingested), one without a parent_id key and one with an
\* empty id were in the input; the output is [B,A], as for the input [B,A].
C7_Witness ==
    /\ op = "get_parent_documents"
    /\ ~Ingested("C")
    /\ inp.child_chunks = ChunksOf(<<"C", "B", NoKey, "A", "">>)
    /\ OutIds = <<"B", "A">>

(***************************************************************************)
(* Text with lengths in the thousands is kept run-length encoded: a        *)
(* sequence of runs [ch, n], n >= 1, no two adjacent runs of the same      *)
(* character.  A character is a one-character string, or the name of its   *)
(* code point ("U+3010") for the CJK characters of the source literals.    *)
(***************************************************************************)
RECURSIVE TextLen(_)
TextLen(t) == IF t = <<>> THEN 0 ELSE Head(t).n + TextLen(Tail(t))

\* a + b on strings
Concat(a, b) ==
    IF a = <<>> THEN b
    ELSE IF b = <<>> THEN a
    ELSE IF a[Len(a)].ch = b[1].ch
         THEN SubSeq(a, 1, Len(a) - 1)
                  \o <<[ch |-> b[1].ch, n |-> a[Len(a)].n + b[1].n]>>
                  \o Tail(b)
         ELSE a \o b

\* c * n
Repeat(c, n) == IF n = 0 THEN <<>> ELSE <<[ch |-> c, n |-> n]>>

\* The string literal with the characters chars.
RECURSIVE Literal(_)
Literal(chars) ==
    IF chars = <<>> THEN <<>>
    ELSE Concat(Repeat(Head(chars), 1), Literal(Tail(chars)))

\* str(i) of a positive integer
RECURSIVE Decimal(_)
Decimal(i) ==
    LET digit == Repeat(<<"0", "1", "2", "3", "4", "5", "6", "7", "8", "9">>[(i % 10) + 1], 1)
    IN  IF i < 10 THEN digit ELSE Concat(Decimal(i \div 10), digit)

\* sep.join(parts)
RECURSIVE Join(_, _)
Join(sep, parts) ==
    IF parts = <<>> THEN <<>>
    ELSE IF Len(parts) = 1 THEN parts[1]
    ELSE Concat(Concat(parts[1], sep), Join(sep, Tail(parts)))

(***************************************************************************)
(* Context Composer: generation_integration.py, _build_context.            *)
(***************************************************************************)
DefaultMaxLength == 2000
SeparatorWidth == 50

\* Line 372: the nine characters of the no-relevant-information placeholder.
Placeholder ==
    Literal(<<"U+6682", "U+65E0", "U+76F8", "U+5173", "U+75BE", "U+75C5",
              "U+4FE1", "U+606F", "U+3002">>)

\* Line 395: "\n" + "="*50
Separator == Concat(Repeat("\n", 1), Repeat("=", SeparatorWidth))

\* Lines 379-383: the heading of block i.
metadata_info(i, doc) ==
    LET head == Concat(Literal(<<"U+3010", "U+6CBB", "U+7597", "U+65B9", "U+6848", " ">>),
                       Concat(Decimal(i), Repeat("U+3011", 1)))
        with_id == IF "case_report_id" \in DOMAIN doc.metadata
                   THEN Concat(head, Concat(Repeat(" ", 1), doc.metadata.case_report_id))
                   ELSE head
    IN  IF "category" \in DOMAIN doc.metadata
        THEN Concat(with_id,
                 Concat(Literal(<<" ", "|", " ", "U+5206", "U+7C7B", ":", " ">>),
                        doc.metadata.category))
        ELSE with_id

\* Line 386: f"{metadata_info}\n{doc.page_content}\n"
doc_text(i, doc) ==
    Concat(metadata_info(i, doc),
        Concat(Repeat("\n", 1), Concat(doc.page_content, Repeat("\n", 1))))

\* Lines 377-393: the loop from document i on; break at the first block that
\* would take current_length over max_length.
RECURSIVE context_parts_from(_, _, _, _, _)
context_parts_from(docs, i, max_length, context_parts, current_length) ==
    IF i > Len(docs) THEN context_parts
    ELSE IF current_length + TextLen(doc_text(i, docs[i])) > max_length
         THEN context_parts
         ELSE context_parts_from(docs, i + 1, max_length,
                  Append(context_parts, doc_text(i, docs[i])),
                  current_length + TextLen(doc_text(i, docs[i])))

\* The loop with continue in place of break at line 390.
RECURSIVE context_parts_skipping(_, _, _, _, _)
context_parts_skipping(docs, i, max_length, context_parts, current_length) ==
    IF i > Len(docs) THEN context_parts
    ELSE IF current_length + TextLen(doc_text(i, docs[i])) > max_length
         THEN context_parts_skipping(docs, i + 1, max_length, context_parts,
                  current_length)
         ELSE context_parts_skipping(docs, i + 1, max_length,
                  Append(context_parts, doc_text(i, docs[i])),
                  current_length + TextLen(doc_text(i, docs[i])))

\* A composer that packs with continue in place of break.
build_context_skipping(docs, max_length) ==
    IF docs = <<>> THEN Placeholder
    ELSE Concat(Separator,
             Join(Repeat("\n", 1), context_parts_skipping(docs, 1, max_length, <<>>, 0)))

\* A composer that returns the placeholder also when no block fits.
build_context_placeholder_when_empty(docs, max_length) ==
    IF context_parts_from(docs, 1, max_length, <<>>, 0) = <<>> THEN Placeholder
    ELSE Concat(Separator,
             Join(Repeat("\n", 1), context_parts_from(docs, 1, max_length, <<>>, 0)))

\* _build_context(docs, max_length)
build_context(docs, max_length) ==
    IF docs = <<>> THEN Placeholder
    ELSE Concat(Separator,
             Join(Repeat("\n", 1), context_parts_from(docs, 1, max_length, <<>>, 0)))

(***************************************************************************)
(* SpecContext: one call of _build_context, for every list of at most      *)
(* MaxDocs documents and every budget of Budgets.  The document at place k *)
(* has a text of Mark(k) characters only, so that its text is recognisable *)
(* in the output; it is a flat-corpus parent (case_report_id and category  *)
(* set) or a hierarchical-corpus parent (neither key).                     *)
(***************************************************************************)
Mark(k) == <<"a", "b", "c", "d", "e", "f", "g", "h">>[k]

\* 878 and 978 make flat blocks of 900 and 1000 characters, 1990 a
\* hierarchical block of exactly 2000.
ContentLens == {0, 5, 878, 978, 1990}

Corpora == {"flat", "hierarchical"}

Budgets == {0, 30, 900, 1800, DefaultMaxLength}

ContextDoc(k, len, corpus) ==
    [page_content |-> Repeat(Mark(k), len),
     metadata |->
        IF corpus = "flat"
        THEN [parent_id |-> Mark(k), doc_type |-> "parent",
              category |-> Literal(<<"U+9AA8", "U+6298">>),
              case_report_id |-> Literal(<<"L", "S">>)]
        ELSE [parent_id |-> Mark(k), doc_type |-> "parent"]]

InitContext ==
    /\ rag = Constructed
    /\ documents = <<>>
    /\ op = "none"
    /\ inp = <<>>
    /\ result = NoResult
    /\ calls = <<>>
    /\ category_labels = TableOrder
    /\ build_status = "not run"
    /\ chunks = <<>>
    /\ parent_child_map = <<>>
    /\ files = <<>>
    /\ uuids = 0
    /\ gen = NoGenerator
    /\ consumer = NoConsumer

BuildContext ==
    /\ op = "none"
    /\ \E n \in 0..MaxDocs : \E lens \in [1..n -> ContentLens] :
       \E corpus \in [1..n -> Corpora] : \E max_length \in Budgets :
           LET docs == [k \in 1..n |-> ContextDoc(k, lens[k], corpus[k])]
           IN  /\ op' = "_build_context"
               /\ inp' = [docs |-> docs, max_length |-> max_length]
               /\ result' = [kind |-> "return",
                             value |-> build_context(docs, max_length)]
    /\ UNCHANGED <<rag, documents, calls, category_labels, build_status,
                 chunks, parent_child_map, files, uuids,
                 gen, consumer>>

NextContext == BuildContext

SpecContext == InitContext /\ [][NextContext]_vars

(***************************************************************************)
(* What the Context Composer claims speak of, stated on input and output.  *)
(***************************************************************************)
\* The i-th character of a text.
RECURSIVE CharAt(_, _)
CharAt(t, i) == IF i <= Head(t).n THEN Head(t).ch ELSE CharAt(Tail(t), i - Head(t).n)

CharsOf(t) == { t[k].ch : k \in 1..Len(t) }

StartsWith(t, prefix) ==
    /\ TextLen(prefix) <= TextLen(t)
    /\ \A i \in 1..TextLen(prefix) : CharAt(t, i) = CharAt(prefix, i)

\* The formatted block of the k-th input document, and its length.
BlockOf(k) == doc_text(k, inp.docs[k])

BlockLen(k) == TextLen(BlockOf(k))

\* Cumulative length of the first k blocks.
RECURSIVE PrefixLen(_)
PrefixLen(k) == IF k = 0 THEN 0 ELSE PrefixLen(k - 1) + BlockLen(k)

\* The output holds exactly the first k blocks, each whole.
HoldsFirstBlocks(k) ==
    result.value =
        Concat(Separator, Join(Repeat("\n", 1), [j \in 1..k |-> BlockOf(j)]))

\* Nothing of block j is in the output: neither its text nor its index.
BlockAbsent(j) ==
    /\ Mark(j) \notin CharsOf(result.value)
    /\ CharsOf(Decimal(j)) \cap CharsOf(result.value) = {}

\* C8: _build_context packs greedily and in order: the output holds exactly
\* the longest prefix of the formatted blocks whose cumulative length is within
\* the budget, each of them whole; the first block that would exceed the budget
\* and every block after it, however small, is absent from the output.
C8_GreedyPrefixPacking ==
    (op = "_build_context" /\ inp.docs /= <<>>) =>
        \E k \in 0..Len(inp.docs) :
            /\ PrefixLen(k) <= inp.max_length
            /\ k < Len(inp.docs) => PrefixLen(k + 1) > inp.max_length
            /\ HoldsFirstBlocks(k)
            /\ \A j \in (k + 1)..Len(inp.docs) : BlockAbsent(j)

\* Of three documents the second did not fit and the third, which would have
\* fitted beside the first, was not considered: the output is the first block.
C8_Witness ==
    /\ op = "_build_context"
    /\ Len(inp.docs) = 3
    /\ BlockLen(1) + BlockLen(2) > inp.max_length
    /\ BlockLen(1) + BlockLen(3) <= inp.max_length
    /\ BlockLen(3) > 0
    /\ HoldsFirstBlocks(1)

\* C9 as stated: for every non-empty list of documents and every budget the
\* length of the string _build_context returns is at most the budget plus the
\* length of the separator prefix; three blocks of 900 with budget 2000 give
\* exactly the first two blocks.
C9_LengthWithinBudgetPlusSeparator ==
    (op = "_build_context" /\ inp.docs /= <<>>) =>
        /\ TextLen(result.value) <= inp.max_length + TextLen(Separator)
        /\ (/\ Len(inp.docs) = 3
            /\ \A k \in 1..3 : BlockLen(k) = 900
            /\ inp.max_length = 2000) => HoldsFirstBlocks(2)

\* C10: _build_context returns the placeholder exactly when the document list
\* is empty; for a non-empty list the result starts with the separator, and
\* it is the bare separator when the first block alone exceeds the budget.
C10_PlaceholderIffNoDocuments ==
    op = "_build_context" =>
        /\ result.value = Placeholder <=> inp.docs = <<>>
        /\ inp.docs /= <<>> =>
               /\ StartsWith(result.value, Separator)
               /\ BlockLen(1) > inp.max_length => result.value = Separator

\* A non-empty list whose first block exceeds the budget gave the bare separator.
C10_Witness ==
    /\ op = "_build_context"
    /\ Len(inp.docs) = 2
    /\ BlockLen(1) > inp.max_length
    /\ inp.max_length = DefaultMaxLength
    /\ result.value = Separator

(***************************************************************************)
(* RecipeRAGSystem: main.py.  A module attribute of the system is None or  *)
(* Set (an object was assigned); the documents of case_report_data_module  *)
(* are the variable documents.                                             *)
(***************************************************************************)
Set == "set"

Raise(error, line) == [kind |-> "raise", error |-> error, line |-> line]

Return(value) == [kind |-> "return", value |-> value]

\* A collaborator call that raises.
Fails == [kind |-> "raise"]

Call(fn, args) == [fn |-> fn, args |-> args]

\* config.py, RAGConfig.top_k
top_k == 3

(***************************************************************************)
(* initialize_system: lines 68-88 assign the modules in order; a           *)
(* constructor that raises (failed_at = its line) leaves the later         *)
(* attributes as they were.  failed_at = 0: no constructor raised.         *)
(***************************************************************************)
InitFailureLines == {0, 73, 77, 84}

initialize_system(self, failed_at) ==
    LET s1 == [self EXCEPT !.case_report_data_module = Set,
                           !.guideline_data_module = Set]
        s2 == [s1 EXCEPT !.index_module = Set]
        s3 == [s2 EXCEPT !.guideline_index_module = Set]
        s4 == [s3 EXCEPT !.generation_module = Set]
    IN  IF failed_at = 73 THEN [self |-> s1, result |-> Raise("Exception", 73)]
        ELSE IF failed_at = 77 THEN [self |-> s2, result |-> Raise("Exception", 77)]
        ELSE IF failed_at = 84 THEN [self |-> s3, result |-> Raise("Exception", 84)]
        ELSE [self |-> s4, result |-> Return(None)]

(***************************************************************************)
(* build_knowledge_base.  GuidelineDataPreparationModule defines the       *)
(* methods of GuidelineMethods only, so the call                           *)
(* self.guideline_data_module.load_index() of line 98 raises               *)
(* AttributeError; the statements after it are modelled to the assignment  *)
(* of the retrieval modules (lines 133-134) and the statistics (line 138). *)
(***************************************************************************)
GuidelineMethods ==
    {"clean_guideline_markdown", "_camel_case_split", "_parse_path_metadata",
     "load_documents", "chunk_documents", "get_parent_documents",
     "export_metadata_report"}

\* What index_module.load_index() does: raises, finds no saved index, or loads one.
LoadIndexOutcomes == {"raise", "absent", "loaded"}

build_knowledge_base(self, load_index) ==
    IF self.index_module = None
    THEN [self |-> self, result |-> Raise("AttributeError", 97),
          calls |-> <<>>]
    ELSE IF load_index = "raise"
    THEN [self |-> self, result |-> Raise("Exception", 97),
          calls |-> <<Call("index_module.load_index", <<>>)>>]
    ELSE IF self.guideline_data_module = None \/ "load_index" \notin GuidelineMethods
    THEN [self |-> self, result |-> Raise("AttributeError", 98),
          calls |-> <<Call("index_module.load_index", <<>>)>>]
    ELSE IF load_index = "absent" /\ "build_vector_index" \notin GuidelineMethods
    THEN [self |-> self, result |-> Raise("AttributeError", 125),
          calls |-> <<Call("index_module.load_index", <<>>),
                      Call("index_module.build_vector_index", <<>>)>>]
    ELSE LET built == [self EXCEPT !.case_report_retrieval_module = Set,
                                   !.guideline_retrieval_module = Set]
         IN  IF "get_statistics" \notin GuidelineMethods
             THEN [self |-> built, result |-> Raise("AttributeError", 138),
                   calls |-> <<Call("index_module.load_index", <<>>)>>]
             ELSE [self |-> built, result |-> Return(None),
                   calls |-> <<Call("index_module.load_index", <<>>)>>]

(***************************************************************************)
(* Filter Extractor: main.py, _extract_filters_from_query.  A question is  *)
(* a sequence of words; a category label occurs in it as a substring when  *)
(* one of its words is the label.                                          *)
(***************************************************************************)
\* Lines 243-251: the first label of category_keywords found in the query.
RECURSIVE extract_filters_from_query(_, _)
extract_filters_from_query(category_keywords, query) ==
    IF category_keywords = <<>> THEN <<>>
    ELSE IF \E k \in 1..Len(query) : query[k] = Head(category_keywords)
         THEN [category |-> Head(category_keywords)]
         ELSE extract_filters_from_query(Tail(category_keywords), query)

(***************************************************************************)
(* ask_question: main.py, lines 146-237.  env holds what the collaborators *)
(* do when they are called:                                                *)
(*   env.router   Fails, or Return(the backend's text for query_router)     *)
(*   env.rewrite  Fails, or Return(the backend's text for query_rewrite)    *)
(*   env.search   Fails, or Return(the fragments the retrieval returns)     *)
(*   env.answer   Fails, or Return(the generation backend's text)           *)
(* The result is what ask_question returns or raises, and calls the        *)
(* collaborators it invoked, in order.  The print loop of lines 186-202    *)
(* reads the fragments and changes nothing.                                *)
(***************************************************************************)
NotFoundMessage == "main.py:206 not-found message"

\* A guard that tests the generation module only.
KnowledgeBaseBuilt_generation_only(self) ==
    self.generation_module /= None

\* all([...]) of line 157: every one of the three attributes is an object.
KnowledgeBaseBuilt(self) ==
    /\ self.case_report_retrieval_module /= None
    /\ self.generation_module /= None
    /\ self.guideline_retrieval_module /= None

\* A dispatch that ignores the route.
answer_generator_basic_only(route_type, stream) ==
    IF stream THEN "generate_basic_answer_stream" ELSE "generate_basic_answer"

\* Lines 226-237: the generator chosen from the route and the delivery mode.
answer_generator(route_type, stream) ==
    IF route_type = LabelDetail
    THEN (IF stream THEN "generate_step_by_step_answer_stream"
          ELSE "generate_step_by_step_answer")
    ELSE (IF stream THEN "generate_basic_answer_stream"
          ELSE "generate_basic_answer")

\* Lines 208-237, reached with a non-empty relevant_chunks.
answer_from_chunks(self, docs, question, stream, env, route_type, relevant_chunks, calls_so_far) ==
    IF self.case_report_data_module = None
    THEN [result |-> Raise("AttributeError", 210), calls |-> calls_so_far]
    ELSE
    LET relevant_docs == get_parent_documents(docs, relevant_chunks).value
        generator == answer_generator(route_type, stream)
        c1 == Append(calls_so_far, Call("get_parent_documents", <<relevant_chunks>>))
        c2 == Append(c1, Call(generator, <<question, relevant_docs>>))
    IN  IF stream
        \* a generator function: nothing of its body runs before the first pull
        THEN [result |-> [kind |-> "generator", fn |-> generator,
                          query |-> question, context_docs |-> relevant_docs],
              calls |-> c2]
        ELSE LET context == build_context(relevant_docs, DefaultMaxLength)
                 c3 == Append(c2, Call("_build_context", <<relevant_docs>>))
                 c4 == Append(c3, Call("llm.invoke", <<question, context>>))
             IN  IF env.answer = Fails
                 THEN [result |-> Raise("Exception",
                                        IF route_type = LabelDetail
                                        THEN 231 ELSE 237),
                       calls |-> c4]
                 ELSE [result |-> env.answer, calls |-> c4]

\* A pipeline that resolves parents and generates also for an empty retrieval.
found_nothing_never(relevant_chunks) == FALSE

\* Line 205: not relevant_chunks
found_nothing(relevant_chunks) == relevant_chunks = <<>>

\* A retrieval stage that answers with the not-found message when the search
\* raises.
answer_from_query_catching(self, labels, docs, question, stream, env, route_type, rewritten_query, calls_so_far) ==
    LET filters == extract_filters_from_query(labels, question)
        search == IF DOMAIN filters /= {}
                  THEN Call("metadata_filtered_search",
                            <<rewritten_query, filters, top_k>>)
                  ELSE Call("hybrid_search", <<rewritten_query, top_k>>)
        c1 == Append(calls_so_far, search)
    IN  IF env.search = Fails \/ found_nothing(env.search.value)
        THEN [result |-> Return(NotFoundMessage), calls |-> c1]
        ELSE answer_from_chunks(self, docs, question, stream, env, route_type,
                                env.search.value, c1)

\* Lines 176-206, reached with the route and the query to retrieve with.
answer_from_query(self, labels, docs, question, stream, env, route_type, rewritten_query, calls_so_far) ==
    LET filters == extract_filters_from_query(labels, question)
        search == IF DOMAIN filters /= {}
                  THEN Call("metadata_filtered_search",
                            <<rewritten_query, filters, top_k>>)
                  ELSE Call("hybrid_search", <<rewritten_query, top_k>>)
        c1 == Append(calls_so_far, search)
    IN  IF env.search = Fails
        THEN [result |-> Raise("Exception",
                               IF DOMAIN filters /= {} THEN 181 ELSE 183),
              calls |-> c1]
        ELSE IF found_nothing(env.search.value)
        THEN [result |-> Return(NotFoundMessage), calls |-> c1]
        ELSE answer_from_chunks(self, docs, question, stream, env, route_type,
                                env.search.value, c1)

\* A pipeline that rewrites the query of every route.
keeps_original_query_never(route_type) == FALSE

\* Line 167: route_type == 'list'
keeps_original_query(route_type) == route_type = LabelList

ask_question(self, labels, docs, question, stream, env) ==
    IF ~KnowledgeBaseBuilt(self)
    THEN [result |-> Raise("ValueError", 158), calls |-> <<>>]
    ELSE
    LET c1 == <<Call("query_router", <<question>>)>>
    IN  IF env.router = Fails
        THEN [result |-> Raise("Exception", 163), calls |-> c1]
        ELSE
        LET route_type == query_router(env.router.value)
        IN  IF keeps_original_query(route_type)
            THEN answer_from_query(self, labels, docs, question, stream,
                                   env, route_type, question, c1)
            ELSE
            LET c2 == Append(c1, Call("query_rewrite", <<question>>))
            IN  IF env.rewrite = Fails
                THEN [result |-> Raise("Exception", 174), calls |-> c2]
                ELSE answer_from_query(self, labels, docs, question,
                                       stream, env, route_type,
                                       strip(env.rewrite.value), c2)

(***************************************************************************)
(* Questions and collaborator outcomes offered to ask_question.            *)
(***************************************************************************)
MaxQuestionLen == 2    \* words of a question

\* A word that is no category label, and two labels of the category table.
Words == {"q", LabelFracture, LabelInfection}

RouterOutcomes ==
    { Fails, Return(LabelList), Return(LabelGeneral),
      Return(<<" ", "D", "e", "t", "a", "i", "l", "\n">>),
      Return(<<"x">>) }

RewriteOutcomes == { Fails, Return(<<"q", "2", "\n">>), Return(<<>>) }

SearchOutcomes ==
    { Fails, Return(<<>>), Return(ChunksOf(<<"A">>)),
      Return(ChunksOf(<<"B", "A", "B">>)) }

AnswerOutcomes == { Fails, Return("answer") }

Env(router, rewrite, search, answer) ==
    [router |-> router, rewrite |-> rewrite, search |-> search,
     answer |-> answer]

(***************************************************************************)
(* Spec: the life of one RecipeRAGSystem from its construction, under any  *)
(* sequence of initialize_system, build_knowledge_base and ask_question.   *)
(***************************************************************************)
Init ==
    /\ rag = Constructed
    /\ documents = <<>>
    /\ op = "none"
    /\ inp = <<>>
    /\ result = NoResult
    /\ calls = <<>>
    /\ category_labels \in LabelOrders
    /\ build_status = "not run"
    /\ chunks = <<>>
    /\ parent_child_map = <<>>
    /\ files = <<>>
    /\ uuids = 0
    /\ gen = NoGenerator
    /\ consumer = NoConsumer

\* Line 68 assigns a new DataPreparationModule: documents [], chunks [] and
\* parent_child_map {} (data_preparation.py, lines 39-41).
InitializeSystem ==
    \E failed_at \in InitFailureLines :
        LET r == initialize_system(rag, failed_at)
        IN  /\ rag' = r.self
            /\ documents' = <<>>
            /\ op' = "initialize_system"
            /\ inp' = <<>>
            /\ result' = r.result
            /\ calls' = <<>>
            /\ chunks' = <<>>
            /\ parent_child_map' = <<>>
            /\ UNCHANGED <<category_labels, build_status, files, uuids,
                 gen, consumer>>

BuildKnowledgeBase ==
    \E load_index \in LoadIndexOutcomes :
        LET r == build_knowledge_base(rag, load_index)
        IN  /\ rag' = r.self
            /\ op' = "build_knowledge_base"
            /\ inp' = [load_index |-> load_index]
            /\ result' = r.result
            /\ calls' = r.calls
            /\ build_status' = IF r.result.kind = "return"
                               THEN "completed" ELSE "failed"
            /\ UNCHANGED <<documents, category_labels, chunks,
                           parent_child_map, files, uuids,
                 gen, consumer>>

AskQuestion ==
    \E n \in 0..MaxQuestionLen : \E question \in [1..n -> Words] :
    \E stream \in BOOLEAN :
    \E router \in RouterOutcomes, rewrite \in RewriteOutcomes,
       search \in SearchOutcomes, answer \in AnswerOutcomes :
        LET r == ask_question(rag, category_labels, documents, question,
                              stream, Env(router, rewrite, search, answer))
        IN  /\ op' = "ask_question"
            /\ inp' = [question |-> question, stream |-> stream]
            /\ result' = r.result
            /\ calls' = r.calls
            /\ UNCHANGED <<rag, documents, category_labels, build_status,
                 chunks, parent_child_map, files, uuids,
                 gen, consumer>>

Next == InitializeSystem \/ BuildKnowledgeBase \/ AskQuestion

Spec == Init /\ [][Next]_vars

\* C2: while build_knowledge_base has not completed (freshly constructed
\* system, after initialize_system only, after a build that failed part-way),
\* ask_question raises the knowledge-base-not-built ValueError of line 158 and
\* has called no collaborator: neither the router, the rewriter, retrieval nor
\* the generation backend.
C2_AskBeforeBuildFails ==
    (op = "ask_question" /\ build_status /= "completed") =>
        /\ result = Raise("ValueError", 158)
        /\ calls = <<>>

\* ask_question was refused on an initialised system whose build had failed.
C2_Witness ==
    /\ op = "ask_question"
    /\ build_status = "failed"
    /\ rag.generation_module = Set
    /\ inp.question = <<LabelFracture, "q">>
    /\ result = Raise("ValueError", 158)
    /\ calls = <<>>

(***************************************************************************)
(* SpecAsk: one call of ask_question as a function of its receiver: an     *)
(* initialised system, as initialize_system leaves it or with the two      *)
(* retrieval modules assigned (lines 133-134), over ingested documents.    *)
(***************************************************************************)
WithRetrieval(self) ==
    [self EXCEPT !.case_report_retrieval_module = Set,
                 !.guideline_retrieval_module = Set]

Initialized == initialize_system(Constructed, 0).self

Receivers == { Initialized, WithRetrieval(Initialized) }

AskDocLists ==
    { <<ParentDoc("A"), ParentDoc("B"), ParentDoc("C")>>,
      <<ParentDoc("B")>> }

InitAsk ==
    /\ rag \in Receivers
    /\ documents \in AskDocLists
    /\ op = "none"
    /\ inp = <<>>
    /\ result = NoResult
    /\ calls = <<>>
    /\ category_labels \in LabelOrders
    /\ build_status = "not run"
    /\ chunks = <<>>
    /\ parent_child_map = <<>>
    /\ files = <<>>
    /\ uuids = 0
    /\ gen = NoGenerator
    /\ consumer = NoConsumer

AskQuestionOnce ==
    /\ op = "none"
    /\ \E n \in 0..MaxQuestionLen : \E question \in [1..n -> Words] :
       \E stream \in BOOLEAN :
       \E router \in RouterOutcomes, rewrite \in RewriteOutcomes,
          search \in SearchOutcomes, answer \in AnswerOutcomes :
           LET env == Env(router, rewrite, search, answer)
               r == ask_question(rag, category_labels, documents, question,
                                 stream, env)
           IN  /\ op' = "ask_question"
               /\ inp' = [question |-> question, stream |-> stream,
                          env |-> env]
               /\ result' = r.result
               /\ calls' = r.calls
    /\ UNCHANGED <<rag, documents, category_labels, build_status,
                 chunks, parent_child_map, files, uuids,
                 gen, consumer>>

NextAsk == AskQuestionOnce

SpecAsk == InitAsk /\ [][NextAsk]_vars

\* The route ask_question works with, when the router returned.
RouteOf(env) == query_router(env.router.value)

\* ask_question got as far as retrieval, and retrieval returned no fragment.
RetrievedNothing ==
    /\ op = "ask_question"
    /\ KnowledgeBaseBuilt(rag)
    /\ inp.env.router /= Fails
    /\ RouteOf(inp.env) /= LabelList => inp.env.rewrite /= Fails
    /\ inp.env.search = Return(<<>>)

\* Parent resolution, context composition and answer generation.
AfterRetrievalCalls ==
    { "get_parent_documents", "_build_context", "llm.invoke",
      "generate_basic_answer", "generate_basic_answer_stream",
      "generate_step_by_step_answer", "generate_step_by_step_answer_stream" }

\* C3: for every route label and both delivery modes, when retrieval returns
\* zero fragments ask_question returns the fixed not-found message (it does
\* not raise), and has invoked neither parent resolution, context composition
\* nor answer generation.
C3_EmptyRetrievalNotFound ==
    RetrievedNothing =>
        /\ result = Return(NotFoundMessage)
        /\ \A k \in 1..Len(calls) : calls[k].fn \notin AfterRetrievalCalls

\* A streamed detail question whose retrieval found nothing got the message.
C3_Witness ==
    /\ RetrievedNothing
    /\ RouteOf(inp.env) = LabelDetail
    /\ inp.stream = TRUE
    /\ result = Return(NotFoundMessage)
    /\ Len(calls) = 3

(***************************************************************************)
(* What the pipeline claims speak of, read from the calls ask_question     *)
(* made.                                                                   *)
(***************************************************************************)
\* ask_question passed the guard of line 157 and the router returned.
Routed ==
    /\ op = "ask_question"
    /\ KnowledgeBaseBuilt(rag)
    /\ inp.env.router /= Fails

CallsOf(fns) == {k \in 1..Len(calls) : calls[k].fn \in fns}

SearchFns == {"metadata_filtered_search", "hybrid_search"}

\* C11: the Query Rewriter is called exactly when the router's label is not
\* list: once, after the router and before retrieval; when the label is list
\* the rewriter is not called and retrieval is handed the original question.
C11_RewriteUnlessList ==
    Routed =>
        IF RouteOf(inp.env) /= LabelList
        THEN /\ CallsOf({"query_rewrite"}) = {2}
             /\ CallsOf({"query_router"}) = {1}
             /\ \A k \in CallsOf(SearchFns) : k > 2
        ELSE /\ CallsOf({"query_rewrite"}) = {}
             /\ \A k \in CallsOf(SearchFns) : calls[k].args[1] = inp.question

\* A list question was searched with the question itself, with no rewrite.
C11_Witness ==
    /\ Routed
    /\ RouteOf(inp.env) = LabelList
    /\ inp.question = <<"q", LabelInfection>>
    /\ Len(calls) >= 2
    /\ calls[2].fn = "metadata_filtered_search"
    /\ calls[2].args[1] = <<"q", LabelInfection>>
    /\ CallsOf({"query_rewrite"}) = {}

\* The category of a filter set, None for the empty filter set.
FilterCategory(filters) ==
    IF DOMAIN filters = {} THEN None ELSE filters.category

\* The filter set retrieval was called with (hybrid_search: the empty one).
FiltersUsed(call) ==
    IF call.fn = "metadata_filtered_search" THEN call.args[2] ELSE <<>>

\* C12: the filter extracted from a question is that of the first label, in
\* one fixed order of the supported labels, occurring in the question, and no
\* filter when none occurs: the same question always yields the same filter,
\* whatever order CATEGORY_LABELS took when the class was created.
C12_SameQuestionSameFilter ==
    op = "ask_question" =>
        \A k \in CallsOf(SearchFns) : \A labels \in LabelOrders :
            FilterCategory(FiltersUsed(calls[k])) =
                FilterCategory(extract_filters_from_query(labels, inp.question))

\* ask_question searched with non-empty retrieval and a data module to resolve.
Retrieved ==
    /\ Routed
    /\ RouteOf(inp.env) /= LabelList => inp.env.rewrite /= Fails
    /\ inp.env.search /= Fails
    /\ inp.env.search /= Return(<<>>)
    /\ rag.case_report_data_module /= None

Generators ==
    { "generate_basic_answer", "generate_basic_answer_stream",
      "generate_step_by_step_answer", "generate_step_by_step_answer_stream" }

\* C13: with a non-empty retrieval exactly one of the four generators is
\* invoked, chosen from route and stream alone: the step-by-step template for
\* detail, the basic template for list and general, its streaming form when
\* stream is set and its blocking form otherwise.
C13_GeneratorFromRouteAndStream ==
    Retrieved =>
        /\ Cardinality(CallsOf(Generators)) = 1
        /\ \A k \in CallsOf(Generators) :
               calls[k].fn =
                   IF RouteOf(inp.env) = LabelDetail
                   THEN (IF inp.stream
                         THEN "generate_step_by_step_answer_stream"
                         ELSE "generate_step_by_step_answer")
                   ELSE (IF inp.stream
                         THEN "generate_basic_answer_stream"
                         ELSE "generate_basic_answer")

\* A blocking detail question was answered by the step-by-step generator.
C13_Witness ==
    /\ Retrieved
    /\ RouteOf(inp.env) = LabelDetail
    /\ inp.stream = FALSE
    /\ CallsOf({"generate_step_by_step_answer"}) = {5}
    /\ CallsOf(Generators) = {5}

(***************************************************************************)
(* Markdown text as the data-preparation modules handle it: the list       *)
(* text.split("\n") of its lines, so the empty text is one empty line.  A  *)
(* line is a heading of level 1..3 ("#" * level, a space, the title), or a *)
(* line of text; trail counts the spaces that follow it.  The lines        *)
(* offered carry no other whitespace at their ends, no HTML tag and no     *)
(* image link.                                                             *)
(***************************************************************************)
Heading(level, title) == [level |-> level, s |-> title, trail |-> 0]

TextLine(s) == [level |-> 0, s |-> s, trail |-> 0]

Blank == TextLine("")

EmptyText == <<Blank>>

IsBlank(line) == line.level = 0 /\ line.s = ""

\* len(line)
LineLen(line) ==
    (IF line.level > 0 THEN line.level + 1 ELSE 0) + Len(line.s) + line.trail

\* len(text): the lines and the newlines between them.
RECURSIVE LinesLen(_)
LinesLen(text) ==
    IF Len(text) = 1 THEN LineLen(text[1])
    ELSE LineLen(Head(text)) + 1 + LinesLen(Tail(text))

\* Titles the reference patterns match, in any letter case.
AcademicRefTitles == {"References", "Works Cited"}

GuidelineRefTitles == {"References"}

\* re.split(ref_pattern, text, flags=re.MULTILINE)[0]: the text before the
\* first reference heading, the newline before that heading included.
BeforeReferences(text, titles) ==
    LET IsRef(k) == text[k].level > 0 /\ text[k].s \in titles
    IN  IF \E k \in 1..Len(text) : IsRef(k)
        THEN LET k == CHOOSE i \in 1..Len(text) :
                          IsRef(i) /\ \A j \in 1..(i - 1) : ~IsRef(j)
             IN  Append(SubSeq(text, 1, k - 1), Blank)
        ELSE text

\* re.sub(r'\n{3,}', '\n\n', text) between two lines of text: of
\* consecutive empty lines one is kept.  (Those at either end of the text
\* are removed by the strip() that follows.)
RECURSIVE CollapseBlankLines(_)
CollapseBlankLines(text) ==
    IF Len(text) <= 1 THEN text
    ELSE IF IsBlank(text[1]) /\ IsBlank(text[2])
         THEN CollapseBlankLines(Tail(text))
         ELSE <<Head(text)>> \o CollapseBlankLines(Tail(text))

\* text.strip(): the empty lines at both ends go; the empty text remains
\* when there is no other line.
RECURSIVE StripText(_)
StripText(text) ==
    IF text = <<>> THEN EmptyText
    ELSE IF IsBlank(Head(text)) THEN StripText(Tail(text))
    ELSE IF IsBlank(text[Len(text)])
         THEN StripText(SubSeq(text, 1, Len(text) - 1))
         ELSE text

clean_academic_markdown(text) ==
    IF text = EmptyText THEN EmptyText
    ELSE StripText(CollapseBlankLines(BeforeReferences(text, AcademicRefTitles)))

clean_guideline_markdown(text) ==
    IF text = EmptyText THEN EmptyText
    ELSE StripText(CollapseBlankLines(BeforeReferences(text, GuidelineRefTitles)))

(***************************************************************************)
(* MarkdownHeaderTextSplitter(headers_to_split_on = #, ##, ###;            *)
(* strip_headers = False).split_text, of langchain_text_splitters, as the  *)
(* two chunkers call it.  A fragment is [page_content, metadata], its      *)
(* metadata the titles of the headings it lies under.                      *)
(***************************************************************************)
HeaderName(level) == <<"Header 1", "Header 2", "Header 3">>[level]

\* header_stack.pop() while the top header is not above the new one.
RECURSIVE PopHeaders(_, _)
PopHeaders(header_stack, level) ==
    IF header_stack /= <<>> /\ header_stack[Len(header_stack)] >= level
    THEN PopHeaders(SubSeq(header_stack, 1, Len(header_stack) - 1), level)
    ELSE header_stack

Flush(st) ==
    IF st.content /= <<>>
    THEN [st EXCEPT !.out = Append(@, [content |-> st.content,
                                       metadata |-> st.metadata]),
                    !.content = <<>>]
    ELSE st

\* The loop over the lines: current_content, current_metadata, header_stack
\* (the levels), initial_metadata and lines_with_metadata.
RECURSIVE split_lines(_, _, _)
split_lines(text, k, st) ==
    IF k > Len(text) THEN Flush(st).out
    ELSE
    LET line == text[k]
    IN  IF line.level > 0
        THEN LET stack == PopHeaders(st.header_stack, line.level)
                 kept == {HeaderName(stack[i]) : i \in 1..Len(stack)}
                 initial == (HeaderName(line.level) :> line.s)
                            @@ [n \in kept |-> st.initial[n]]
                 flushed == Flush(st)
             IN  split_lines(text, k + 1,
                     [content |-> Append(flushed.content, line),
                      metadata |-> initial,
                      header_stack |-> Append(stack, line.level),
                      initial |-> initial,
                      out |-> flushed.out])
        ELSE IF ~IsBlank(line)
        THEN split_lines(text, k + 1,
                 [st EXCEPT !.content = Append(@, line),
                            !.metadata = st.initial])
        ELSE split_lines(text, k + 1,
                 [Flush(st) EXCEPT !.metadata = st.initial])

\* content += "  \n" + line["content"]
MergeLines(last, line, metadata) ==
    [content |-> [last.content EXCEPT ![Len(last.content)].trail = @ + 2]
                 \o line.content,
     metadata |-> metadata]

RECURSIVE aggregate_lines_to_chunks(_, _)
aggregate_lines_to_chunks(lines, aggregated_chunks) ==
    IF lines = <<>> THEN aggregated_chunks
    ELSE
    LET line == Head(lines)
        n == Len(aggregated_chunks)
        last == aggregated_chunks[n]
        SameKeys(a, b) == DOMAIN a = DOMAIN b /\ \A x \in DOMAIN a : a[x] = b[x]
    IN  IF n > 0 /\ SameKeys(last.metadata, line.metadata)
        THEN aggregate_lines_to_chunks(Tail(lines),
                 [aggregated_chunks EXCEPT
                     ![n] = MergeLines(last, line, last.metadata)])
        ELSE IF /\ n > 0
                /\ Cardinality(DOMAIN last.metadata)
                       < Cardinality(DOMAIN line.metadata)
                /\ last.content[Len(last.content)].level > 0
        THEN aggregate_lines_to_chunks(Tail(lines),
                 [aggregated_chunks EXCEPT
                     ![n] = MergeLines(last, line, line.metadata)])
        ELSE aggregate_lines_to_chunks(Tail(lines),
                 Append(aggregated_chunks, line))

split_text(text) ==
    LET start == [content |-> <<>>, metadata |-> <<>>, header_stack |-> <<>>,
                  initial |-> <<>>, out |-> <<>>]
        aggregated == aggregate_lines_to_chunks(split_lines(text, 1, start), <<>>)
    IN  [k \in 1..Len(aggregated) |->
            [page_content |-> aggregated[k].content,
             metadata |-> aggregated[k].metadata]]

(***************************************************************************)
(* Files.  A path is the sequence of its segments.  A file under data_path *)
(* is [rel, link, content]: its path relative to data_path, what its path  *)
(* resolves to (itself, another path under data_path, or a path outside    *)
(* it, when the entry is a symbolic link), and what reading it gives.      *)
(***************************************************************************)
DataRoot == <<"data">>

NoLink == [kind |-> "none"]

LinkTo(rel) == [kind |-> "inside", rel |-> rel]

LinkOutside == [kind |-> "outside"]

File(rel, link, content) == [rel |-> rel, link |-> link, content |-> content]

\* hashlib.md5(s.encode("utf-8")).hexdigest(): the digest of its input.
md5(s) == [md5 |-> s]

\* str(md_file): data_path joined with the relative path.
SourceOf(file) == DataRoot \o file.rel

(***************************************************************************)
(* DataPreparationModule: load_documents and _enhance_metadata.            *)
(***************************************************************************)
\* Lines 101-105: Path(md_file).resolve().relative_to(data_root).as_posix(),
\* and Path(md_file).as_posix() when the resolved path is not under the root.
flat_relative_path(file) ==
    IF file.link.kind = "none" THEN file.rel
    ELSE IF file.link.kind = "inside" THEN file.link.rel
    ELSE SourceOf(file)

DefaultCategory == "U+5176 U+4ED6"

\* A scan that follows the path and takes the first segment that is a keyword.
RECURSIVE category_by_path_order(_, _)
category_by_path_order(mapping, path_parts) ==
    IF path_parts = <<>> THEN DefaultCategory
    ELSE IF \E k \in 1..Len(mapping) : mapping[k][1] = Head(path_parts)
         THEN mapping[CHOOSE k \in 1..Len(mapping) :
                          mapping[k][1] = Head(path_parts)][2]
         ELSE category_by_path_order(mapping, Tail(path_parts))

\* Lines 141-145: the label of the first keyword of the table, in table
\* order, that is one of path_parts; the default when none is.
RECURSIVE category_of(_, _)
category_of(mapping, path_parts) ==
    IF mapping = <<>> THEN DefaultCategory
    ELSE IF \E k \in 1..Len(path_parts) : path_parts[k] = Head(mapping)[1]
         THEN Head(mapping)[2]
         ELSE category_of(Tail(mapping), path_parts)

\* Lines 137-148.  path_parts are the segments of the file's directory; its
\* stem is its last segment (the directory names offered have no suffix).
enhance_metadata(doc) ==
    LET source == doc.metadata["source"]
        path_parts == SubSeq(source, 1, Len(source) - 1)
    IN  [doc EXCEPT !.metadata =
            ("category" :> category_of(CATEGORY_MAPPING, path_parts))
            @@ ("case_report_id" :> path_parts[Len(path_parts)])
            @@ doc.metadata]

\* Lines 89-128: the documents list the call builds and assigns.
RECURSIVE load_documents(_)
load_documents(md_files) ==
    IF md_files = <<>> THEN <<>>
    ELSE LET md_file == Head(md_files)
             rest == load_documents(Tail(md_files))
         IN  IF md_file.content = Fails THEN rest
             ELSE <<enhance_metadata(
                       [page_content |->
                            clean_academic_markdown(md_file.content.value),
                        metadata |->
                            [source |-> SourceOf(md_file),
                             parent_id |-> md5(flat_relative_path(md_file)),
                             doc_type |-> "parent"]])>> \o rest

(***************************************************************************)
(* DataPreparationModule: chunk_documents and _markdown_header_split.      *)
(* failing holds the places in self.documents of the documents for which   *)
(* split_text raises.  A fragment that is the parent document itself (line *)
(* 249) is held as [alias |-> its place] until the call ends.              *)
(***************************************************************************)
\* Lines 228-242: the fragments of one document and their identifiers.
child_chunks_of(doc, md_chunks, uuid_base) ==
    [i \in 1..Len(md_chunks) |->
        [page_content |-> md_chunks[i].page_content,
         metadata |->
            ("chunk_id" :> uuid_base + i)
            @@ ("parent_id" :> doc.metadata["parent_id"])
            @@ ("doc_type" :> "child")
            @@ ("chunk_index" :> i - 1)
            @@ doc.metadata
            @@ md_chunks[i].metadata]]

\* Lines 206-249, from the k-th document on.
RECURSIVE markdown_header_split(_, _, _, _)
markdown_header_split(docs, k, failing, st) ==
    IF k > Len(docs) THEN st
    ELSE IF k \in failing
    THEN markdown_header_split(docs, k + 1, failing,
             [st EXCEPT !.all_chunks = Append(@, [alias |-> k])])
    ELSE LET md_chunks == split_text(docs[k].page_content)
             new == child_chunks_of(docs[k], md_chunks, st.uuids)
         IN  markdown_header_split(docs, k + 1, failing,
                 [all_chunks |-> st.all_chunks \o new,
                  parent_child_map |->
                      [id \in (st.uuids + 1)..(st.uuids + Len(new)) |->
                              docs[k].metadata["parent_id"]]
                          @@ st.parent_child_map,
                  uuids |-> st.uuids + Len(new)])

\* Lines 173-178, from the i-th fragment on: chunk_id where there is none,
\* batch_index and chunk_size.  A fragment that is a parent document is that
\* document: what is written to its metadata is written to the parent.
RECURSIVE add_base_metadata(_, _, _)
add_base_metadata(all_chunks, i, st) ==
    IF i > Len(all_chunks) THEN st
    ELSE
    LET c == all_chunks[i]
        chunk == IF "alias" \in DOMAIN c THEN st.documents[c.alias] ELSE c
        fresh == "chunk_id" \notin DOMAIN chunk.metadata
        metadata == ("batch_index" :> i - 1)
                    @@ ("chunk_size" :> LinesLen(chunk.page_content))
                    @@ (IF fresh THEN ("chunk_id" :> st.uuids + 1) ELSE <<>>)
                    @@ chunk.metadata
        written == [chunk EXCEPT !.metadata = metadata]
    IN  add_base_metadata(all_chunks, i + 1,
            [documents |-> IF "alias" \in DOMAIN c
                           THEN [st.documents EXCEPT ![c.alias] = written]
                           ELSE st.documents,
             chunks |-> Append(st.chunks, written),
             uuids |-> IF fresh THEN st.uuids + 1 ELSE st.uuids])

\* Lines 157-182.  self is [documents, chunks, parent_child_map, uuids].
chunk_documents(self, failing) ==
    IF self.documents = <<>>
    THEN [self |-> self, result |-> Raise("ValueError", 167)]
    ELSE
    LET split == markdown_header_split(self.documents, 1, failing,
                     [all_chunks |-> <<>>,
                      parent_child_map |-> self.parent_child_map,
                      uuids |-> self.uuids])
        based == add_base_metadata(split.all_chunks, 1,
                     [documents |-> self.documents, chunks |-> <<>>,
                      uuids |-> split.uuids])
    IN  [self |-> [documents |-> based.documents,
                   chunks |-> based.chunks,
                   parent_child_map |-> split.parent_child_map,
                   uuids |-> based.uuids],
         result |-> Return(based.chunks)]

(***************************************************************************)
(* SpecFlat: a DataPreparationModule over one of the corpora of            *)
(* FlatCorpora, under any sequence of load_documents and chunk_documents.  *)
(***************************************************************************)
MaxUuids == 6    \* chunk_documents is not started beyond this many identifiers

TextSections ==
    <<Heading(1, "A"), TextLine("t"), Heading(2, "B"), TextLine("u")>>

TextPlain == <<TextLine("t")>>

TextParagraphs == <<TextLine("t"), Blank, TextLine("u")>>

TextOnlyReferences == <<Heading(2, "References"), TextLine("r")>>

TextWithWorksCited ==
    <<Heading(1, "A"), TextLine("t"), Blank, Blank,
      Heading(2, "Works Cited"), TextLine("r")>>

FlatCorpora ==
    { <<>>,
      << File(<<"fracture", "caseA", "a.md">>, NoLink, Return(TextSections)),
         File(<<"infection", "fracture", "caseB", "b.md">>, NoLink,
              Return(TextPlain)) >>,
      << File(<<"caseC", "c.md">>, NoLink, Return(TextParagraphs)),
         File(<<"others", "hemangioma", "d.md">>, NoLink,
              Return(TextOnlyReferences)),
         File(<<"e.md">>, NoLink, Fails) >>,
      << File(<<"fracture", "infection", "a.md">>, NoLink,
              Return(TextWithWorksCited)),
         File(<<"malignant_tumor", "l.md">>,
              LinkTo(<<"fracture", "infection", "a.md">>),
              Return(TextWithWorksCited)) >>,
      << File(<<"x.md">>, LinkOutside, Return(EmptyText)) >> }

InitFlat ==
    /\ rag = Constructed
    /\ documents = <<>>
    /\ op = "none"
    /\ inp = <<>>
    /\ result = NoResult
    /\ calls = <<>>
    /\ category_labels = TableOrder
    /\ build_status = "not run"
    /\ chunks = <<>>
    /\ parent_child_map = <<>>
    /\ files \in FlatCorpora
    /\ uuids = 0
    /\ gen = NoGenerator
    /\ consumer = NoConsumer

LoadDocuments ==
    /\ op' = "load_documents"
    /\ inp' = <<>>
    /\ documents' = load_documents(files)
    /\ result' = Return(documents')
    /\ UNCHANGED <<rag, calls, category_labels, build_status, chunks,
                   parent_child_map, files, uuids,
                 gen, consumer>>

ChunkDocuments ==
    /\ uuids < MaxUuids
    /\ \E failing \in SUBSET (1..Len(documents)) :
           LET r == chunk_documents(
                        [documents |-> documents, chunks |-> chunks,
                         parent_child_map |-> parent_child_map,
                         uuids |-> uuids], failing)
           IN  /\ op' = "chunk_documents"
               /\ inp' = [failing |-> failing]
               /\ documents' = r.self.documents
               /\ chunks' = r.self.chunks
               /\ parent_child_map' = r.self.parent_child_map
               /\ uuids' = r.self.uuids
               /\ result' = r.result
    /\ UNCHANGED <<rag, calls, category_labels, build_status, files,
                 gen, consumer>>

NextFlat == LoadDocuments \/ ChunkDocuments

SpecFlat == InitFlat /\ [][NextFlat]_vars

(***************************************************************************)
(* GuidelineDataPreparationModule: _parse_path_metadata and                *)
(* load_documents.  A guideline file is [rel, parse, content]: parse is    *)
(* Fails when something inside _parse_path_metadata raises for it.         *)
(***************************************************************************)
GuidelineFile(rel, parse, content) ==
    [rel |-> rel, parse |-> parse, content |-> content]

Parses == Return(None)

\* _camel_case_split of the book folders offered.
camel_case_split == ("AdultSpine" :> "Adult Spine") @@ ("spine" :> "spine")

\* Lines 433-438 for the chapter folders offered: index and name.
chapter_of ==
    ("B_Diagnosis_Imaging" :> <<"B", "Diagnosis Imaging">>)
    @@ ("Intro" :> <<"0", "Intro">>)

\* Lines 442-445 for the file names offered: the digits after "part", or 1.
part_index_of ==
    ("part2.md" :> 2) @@ ("Part10.md" :> 10) @@ ("notes.md" :> 1)
    @@ ("readme.md" :> 1)

\* Lines 418-458.
parse_path_metadata(file) ==
    LET parts == file.rel
    IN  IF file.parse = Fails THEN [is_valid |-> FALSE]
        ELSE IF Len(parts) < 3 THEN [is_valid |-> FALSE]
        ELSE LET book_name == camel_case_split[parts[1]]
                 chapter == chapter_of[parts[2]]
                 file_name == parts[Len(parts)]
             IN  [is_valid |-> TRUE,
                  book_name |-> book_name,
                  chapter_index |-> chapter[1],
                  chapter_name |-> chapter[2],
                  part_index |-> part_index_of[file_name],
                  source_file |-> file_name,
                  hierarchy_string |->
                      <<book_name, " > ", chapter[1], ". ", chapter[2],
                        " > Part ", part_index_of[file_name]>>]

\* A loader that ingests nothing more once a file is invalid or unreadable.
RECURSIVE guideline_load_documents_until_invalid(_)
guideline_load_documents_until_invalid(md_files) ==
    IF md_files = <<>> THEN <<>>
    ELSE LET md_file == Head(md_files)
             meta == parse_path_metadata(md_file)
         IN  IF ~meta.is_valid \/ md_file.content = Fails THEN <<>>
             ELSE <<[page_content |->
                         clean_guideline_markdown(md_file.content.value),
                     metadata |->
                         [source |-> SourceOf(md_file),
                          parent_id |-> md5(md_file.rel),
                          doc_type |-> "parent",
                          book_name |-> meta.book_name,
                          chapter_index |-> meta.chapter_index,
                          chapter_name |-> meta.chapter_name,
                          part_index |-> meta.part_index,
                          citation_source |-> meta.hierarchy_string]]>>
                  \o guideline_load_documents_until_invalid(Tail(md_files))

\* Lines 464-508: the documents list the call builds and assigns.
RECURSIVE guideline_load_documents(_)
guideline_load_documents(md_files) ==
    IF md_files = <<>> THEN <<>>
    ELSE LET md_file == Head(md_files)
             meta == parse_path_metadata(md_file)
             rest == guideline_load_documents(Tail(md_files))
         IN  IF ~meta.is_valid THEN rest
             ELSE IF md_file.content = Fails THEN rest
             ELSE <<[page_content |->
                         clean_guideline_markdown(md_file.content.value),
                     metadata |->
                         [source |-> SourceOf(md_file),
                          parent_id |-> md5(md_file.rel),
                          doc_type |-> "parent",
                          book_name |-> meta.book_name,
                          chapter_index |-> meta.chapter_index,
                          chapter_name |-> meta.chapter_name,
                          part_index |-> meta.part_index,
                          citation_source |-> meta.hierarchy_string]]>>
                  \o rest

(***************************************************************************)
(* GuidelineDataPreparationModule.chunk_documents.  failing holds the      *)
(* places of the documents for which split_text raises.                    *)
(***************************************************************************)
\* Lines 555-558: the titles of Header 1, 2, 3 the fragment lies under.
headers_of(metadata) ==
    LET h(n) == IF HeaderName(n) \in DOMAIN metadata
                THEN <<metadata[HeaderName(n)]>> ELSE <<>>
    IN  h(1) \o h(2) \o h(3)

\* Lines 539-567: the fragments of one document and their identifiers.
guideline_child_chunks_of(doc, md_chunks, uuid_base) ==
    [i \in 1..Len(md_chunks) |->
        [page_content |-> md_chunks[i].page_content,
         metadata |->
            ("semantic_context" :>
                 <<doc.metadata["book_name"], " > ",
                   doc.metadata["chapter_name"], " > ",
                   headers_of(md_chunks[i].metadata)>>)
            @@ ("chunk_id" :> uuid_base + i)
            @@ ("doc_type" :> "child")
            @@ ("chunk_index" :> i - 1)
            @@ ("chunk_size" :> LinesLen(md_chunks[i].page_content))
            @@ doc.metadata
            @@ md_chunks[i].metadata]]

\* Lines 532-567, from the k-th document on; raised is set when line 537
\* raises, and the loop ends there.
RECURSIVE guideline_chunk_loop(_, _, _, _)
guideline_chunk_loop(docs, k, failing, st) ==
    IF k > Len(docs) THEN st
    ELSE IF k \in failing THEN [st EXCEPT !.raised = TRUE]
    ELSE LET md_chunks == split_text(docs[k].page_content)
             new == guideline_child_chunks_of(docs[k], md_chunks, st.uuids)
         IN  guideline_chunk_loop(docs, k + 1, failing,
                 [all_chunks |-> st.all_chunks \o new,
                  parent_child_map |->
                      [id \in (st.uuids + 1)..(st.uuids + Len(new)) |->
                              docs[k].metadata["parent_id"]]
                          @@ st.parent_child_map,
                  uuids |-> st.uuids + Len(new),
                  raised |-> FALSE])

\* Lines 510-571.  self is [documents, chunks, parent_child_map, uuids].
guideline_chunk_documents(self, failing) ==
    IF self.documents = <<>>
    THEN [self |-> self, result |-> Raise("ValueError", 517)]
    ELSE
    LET loop == guideline_chunk_loop(self.documents, 1, failing,
                    [all_chunks |-> <<>>,
                     parent_child_map |-> self.parent_child_map,
                     uuids |-> self.uuids, raised |-> FALSE])
    IN  IF loop.raised
        THEN [self |-> [self EXCEPT
                            !.parent_child_map = loop.parent_child_map,
                            !.uuids = loop.uuids],
              result |-> Raise("Exception", 537)]
        ELSE [self |-> [documents |-> self.documents,
                        chunks |-> loop.all_chunks,
                        parent_child_map |-> loop.parent_child_map,
                        uuids |-> loop.uuids],
              result |-> Return(loop.all_chunks)]

(***************************************************************************)
(* SpecGuideline: a GuidelineDataPreparationModule over one of the corpora *)
(* of GuidelineCorpora, under any sequence of load_documents and           *)
(* chunk_documents.                                                        *)
(***************************************************************************)
GuidelineCorpora ==
    { <<>>,
      << GuidelineFile(<<"AdultSpine", "B_Diagnosis_Imaging", "part2.md">>,
                       Parses, Return(TextSections)),
         GuidelineFile(<<"AdultSpine", "Intro", "notes.md">>,
                       Parses, Return(TextParagraphs)) >>,
      << GuidelineFile(<<"spine", "Intro", "part2.md">>, Parses,
                       Return(TextPlain)),
         GuidelineFile(<<"spine", "B_Diagnosis_Imaging", "part2.md">>,
                       Parses, Return(EmptyText)),
         GuidelineFile(<<"AdultSpine", "Intro", "Part10.md">>, Parses,
                       Return(TextSections)) >>,
      << GuidelineFile(<<"readme.md">>, Parses, Return(TextPlain)),
         GuidelineFile(<<"AdultSpine", "notes.md">>, Parses,
                       Return(TextSections)),
         GuidelineFile(<<"spine", "Intro", "deep", "Part10.md">>,
                       Parses, Return(TextWithWorksCited)) >>,
      << GuidelineFile(<<"spine", "Intro", "part2.md">>, Fails,
                       Return(TextPlain)),
         GuidelineFile(<<"spine", "Intro", "notes.md">>, Parses, Fails),
         GuidelineFile(<<"spine", "B_Diagnosis_Imaging", "notes.md">>,
                       Parses, Return(TextOnlyReferences)) >> }

InitGuideline ==
    /\ rag = Constructed
    /\ documents = <<>>
    /\ op = "none"
    /\ inp = <<>>
    /\ result = NoResult
    /\ calls = <<>>
    /\ category_labels = TableOrder
    /\ build_status = "not run"
    /\ chunks = <<>>
    /\ parent_child_map = <<>>
    /\ files \in GuidelineCorpora
    /\ uuids = 0
    /\ gen = NoGenerator
    /\ consumer = NoConsumer

GuidelineLoadDocuments ==
    /\ op' = "load_documents"
    /\ inp' = <<>>
    /\ documents' = guideline_load_documents(files)
    /\ result' = Return(documents')
    /\ UNCHANGED <<rag, calls, category_labels, build_status, chunks,
                   parent_child_map, files, uuids,
                 gen, consumer>>

GuidelineChunkDocuments ==
    /\ uuids < MaxUuids
    /\ \E failing \in SUBSET (1..Len(documents)) :
           LET r == guideline_chunk_documents(
                        [documents |-> documents, chunks |-> chunks,
                         parent_child_map |-> parent_child_map,
                         uuids |-> uuids], failing)
           IN  /\ op' = "chunk_documents"
               /\ inp' = [failing |-> failing]
               /\ documents' = r.self.documents
               /\ chunks' = r.self.chunks
               /\ parent_child_map' = r.self.parent_child_map
               /\ uuids' = r.self.uuids
               /\ result' = r.result
    /\ UNCHANGED <<rag, calls, category_labels, build_status, files,
                 gen, consumer>>

NextGuideline == GuidelineLoadDocuments \/ GuidelineChunkDocuments

SpecGuideline == InitGuideline /\ [][NextGuideline]_vars

(***************************************************************************)
(* What the ingestion claims speak of, stated on the module's state.       *)
(***************************************************************************)
ChunkIds == {chunks[k].metadata["chunk_id"] : k \in 1..Len(chunks)}

\* C14: after any sequence of load_documents and chunk_documents,
\* parent_child_map is the mapping rebuilt from the current fragments: one
\* entry chunk_id -> parent_id for every fragment of chunks, equal to the
\* fragment's own parent_id, and no entry for any other identifier.
C14_ParentChildMapIsRebuilt ==
    /\ DOMAIN parent_child_map = ChunkIds
    /\ \A k \in 1..Len(chunks) :
           parent_child_map[chunks[k].metadata["chunk_id"]]
               = chunks[k].metadata["parent_id"]

NoHeading(text) == \A k \in 1..Len(text) : text[k].level = 0

FragmentsOf(doc) ==
    {k \in 1..Len(chunks) :
        chunks[k].metadata["parent_id"] = doc.metadata["parent_id"]}

Chunked == op = "chunk_documents" /\ result.kind = "return"

\* C15: after chunk_documents, every ingested parent whose normalized text
\* has no heading line (the empty text included) has exactly one fragment,
\* and that fragment's content is the parent's whole normalized text.
C15_NoHeadingOneWholeFragment ==
    Chunked =>
        \A d \in 1..Len(documents) :
            NoHeading(documents[d].page_content) =>
                /\ Cardinality(FragmentsOf(documents[d])) = 1
                /\ \A k \in FragmentsOf(documents[d]) :
                       chunks[k].page_content = documents[d].page_content

\* C16: when splitting one document fails, chunk_documents does not raise:
\* it returns, the failing document contributes one whole-document fragment
\* and every other document is chunked.
C16_SplitFailureDegrades ==
    (op = "chunk_documents" /\ documents /= <<>> /\ inp.failing /= {}) =>
        /\ result.kind = "return"
        /\ \A d \in 1..Len(documents) :
               d \in inp.failing =>
                   \E k \in 1..Len(chunks) :
                       chunks[k].page_content = documents[d].page_content

\* The files load_documents could read, in rglob order.
RECURSIVE ReadableFiles(_)
ReadableFiles(md_files) ==
    IF md_files = <<>> THEN <<>>
    ELSE IF Head(md_files).content = Fails THEN ReadableFiles(Tail(md_files))
    ELSE <<Head(md_files)>> \o ReadableFiles(Tail(md_files))

\* C17: after load_documents, documents holds exactly one parent per
\* ingested file (the list is replaced, not appended to), and two files with
\* different relative paths have identifiers computed from different inputs.
C17_OneParentPerFileDistinctIds ==
    op = "load_documents" =>
        LET ingested == ReadableFiles(files)
        IN  /\ Len(documents) = Len(ingested)
            /\ \A i \in 1..Len(documents) :
                   documents[i].metadata["source"] = SourceOf(ingested[i])
            /\ \A i, j \in 1..Len(documents) :
                   ingested[i].rel /= ingested[j].rel =>
                       documents[i].metadata["parent_id"]
                           /= documents[j].metadata["parent_id"]

\* A guideline file that yields a parent: at least three path segments,
\* parsed and read without failure.
ValidGuidelineFile(file) ==
    /\ Len(file.rel) >= 3
    /\ file.parse /= Fails
    /\ file.content /= Fails

RECURSIVE ValidGuidelineFiles(_)
ValidGuidelineFiles(md_files) ==
    IF md_files = <<>> THEN <<>>
    ELSE IF ValidGuidelineFile(Head(md_files))
         THEN <<Head(md_files)>> \o ValidGuidelineFiles(Tail(md_files))
         ELSE ValidGuidelineFiles(Tail(md_files))

\* C18: the guideline load_documents returns whatever the files are: a file
\* with fewer than 3 path segments, or whose parsing or reading fails, gives
\* no parent, every other file gives exactly one, also after an invalid file.
C18_InvalidFilesSkipped ==
    op = "load_documents" =>
        LET valid == ValidGuidelineFiles(files)
        IN  /\ result.kind = "return"
            /\ Len(documents) = Len(valid)
            /\ \A i \in 1..Len(documents) :
                   documents[i].metadata["source"] = SourceOf(valid[i])

\* Two files too shallow were skipped and the file after them ingested.
C18_Witness ==
    /\ op = "load_documents"
    /\ Len(files) = 3
    /\ Len(files[1].rel) = 1
    /\ Len(files[2].rel) = 2
    /\ Len(documents) = 1
    /\ documents[1].metadata["source"] = SourceOf(files[3])

\* The places in the keyword table of the keywords among the segments.
KeywordsAmong(path_parts) ==
    {k \in 1..Len(CATEGORY_MAPPING) :
        \E i \in 1..Len(path_parts) : path_parts[i] = CATEGORY_MAPPING[k][1]}

DirectoryOf(doc) ==
    SubSeq(doc.metadata["source"], 1, Len(doc.metadata["source"]) - 1)

\* C19: every flat-corpus document has the category of the keyword that comes
\* earliest in the keyword table among the keywords that are directory
\* segments of its path, whatever their order in the path, and the default
\* category when no keyword is a segment.
C19_CategoryByTableOrder ==
    op = "load_documents" =>
        \A d \in 1..Len(documents) :
            LET present == KeywordsAmong(DirectoryOf(documents[d]))
            IN  documents[d].metadata["category"] =
                    IF present = {} THEN DefaultCategory
                    ELSE CATEGORY_MAPPING[
                             CHOOSE k \in present :
                                 \A m \in present : k <= m][2]

\* A document under infection/fracture was classified as fracture.
C19_Witness ==
    /\ op = "load_documents"
    /\ Len(documents) = 2
    /\ DirectoryOf(documents[2]) = <<"data", "infection", "fracture", "caseB">>
    /\ documents[2].metadata["category"] = LabelFracture
    /\ documents[1].metadata["category"] = LabelFracture

SameDocument(a, b) ==
    /\ a.page_content = b.page_content
    /\ DOMAIN a.metadata = DOMAIN b.metadata
    /\ \A key \in DOMAIN a.metadata : a.metadata[key] = b.metadata[key]

\* C20: a parent document stays as load_documents created it: no later
\* operation changes its text or any of its metadata fields.
C20_ParentsImmutable ==
    documents /= <<>> =>
        LET created == load_documents(files)
        IN  /\ Len(documents) = Len(created)
            /\ \A d \in 1..Len(documents) :
                   SameDocument(documents[d], created[d])

(***************************************************************************)
(* The streaming generators: generation_integration.py,                    *)
(* generate_basic_answer_stream (lines 275-308) and                        *)
(* generate_step_by_step_answer_stream (lines 310-358).  Both are Python   *)
(* generator functions: the call made at main.py lines 229 and 235 creates *)
(* a generator object and runs nothing of the body; the body runs inside   *)
(* next(), from where it stands to the next yield, the end or an           *)
(* exception.  The frame of the generator object is                        *)
(*   "created"    no statement of the body has run                         *)
(*   "running"    inside a next() of the consumer                          *)
(*   "suspended"  at the yield of line 308 / 358                           *)
(*   "finished"   the for loop ended (StopIteration)                       *)
(*   "raised"     an exception left the body                               *)
(* and pc is the statement the body stands at: "context" (lines 286 /      *)
(* 321), "stream" (the for header of lines 307 / 357) or "yield".          *)
(* In streaming mode env.answer is what the generation backend emits: a    *)
(* sequence of fragments, ended normally or by a failure.                  *)
(***************************************************************************)
MaxFragments == 2    \* fragments the backend emits for one answer
MaxPulls == 4        \* next() calls of the consumer

StopIteration == [kind |-> "StopIteration"]

\* A function that composes the context before it hands out the iterator.
generator_function_eager(fn, query, context_docs) ==
    [frame |-> "created", fn |-> fn, query |-> query,
     context_docs |-> context_docs, pc |-> "stream",
     context |-> Return(build_context(context_docs, DefaultMaxLength)),
     opened |-> FALSE, fetched |-> 0, chunk |-> NoResult]

\* Calling a function whose body holds a yield: a generator object standing
\* before the first statement.
generator_function(fn, query, context_docs) ==
    [frame |-> "created", fn |-> fn, query |-> query,
     context_docs |-> context_docs, pc |-> "context", context |-> NoResult,
     opened |-> FALSE, fetched |-> 0, chunk |-> NoResult]

\* The line of the for header of the generator function fn.
stream_line(fn) ==
    IF fn = "generate_step_by_step_answer_stream" THEN 357 ELSE 307

Fragments == {"a", "b"}

StreamOutcomes ==
    { [fragments |-> f, ends |-> e] :
        f \in UNION { [1..n -> Fragments] : n \in 0..MaxFragments },
        e \in {"stop", "raise"} }

StreamQuestions == { <<"q">>, <<LabelInfection, LabelFracture>> }

(***************************************************************************)
(* SpecConsume: a caller asks one question of a system whose knowledge     *)
(* base is built and, when it got a generator, iterates over it as the     *)
(* loop of main.py line 329 does, or stops early.                          *)
(***************************************************************************)
InitConsume ==
    /\ rag = WithRetrieval(Initialized)
    /\ documents = <<ParentDoc("A"), ParentDoc("B"), ParentDoc("C")>>
    /\ op = "none"
    /\ inp = <<>>
    /\ result = NoResult
    /\ calls = <<>>
    /\ category_labels \in LabelOrders
    /\ build_status = "not run"
    /\ chunks = <<>>
    /\ parent_child_map = <<>>
    /\ files = <<>>
    /\ uuids = 0
    /\ gen = NoGenerator
    /\ consumer = NoConsumer

\* main.py lines 329 / 334: the caller calls ask_question.
Ask ==
    /\ op = "none"
    /\ \E question \in StreamQuestions, stream \in BOOLEAN :
       \E router \in RouterOutcomes, rewrite \in RewriteOutcomes,
          search \in SearchOutcomes :
       \E answer \in (IF stream THEN StreamOutcomes ELSE AnswerOutcomes) :
           LET env == Env(router, rewrite, search, answer)
               r == ask_question(rag, category_labels, documents, question,
                                 stream, env)
           IN  /\ op' = "ask_question"
               /\ inp' = [question |-> question, stream |-> stream,
                          env |-> env]
               /\ result' = r.result
               /\ calls' = r.calls
               /\ gen' = IF r.result.kind = "generator"
                         THEN generator_function(r.result.fn, r.result.query,
                                                 r.result.context_docs)
                         ELSE NoGenerator
    /\ UNCHANGED <<rag, documents, category_labels, build_status,
                 chunks, parent_child_map, files, uuids, consumer>>

\* The consumer calls next() on the generator.  A generator that finished or
\* raised answers every further next() with StopIteration.
Pull ==
    /\ gen.frame \in {"created", "suspended", "finished", "raised"}
    /\ ~consumer.stopped
    /\ consumer.pulls < MaxPulls
    /\ op' = "next"
    /\ IF gen.frame \in {"created", "suspended"}
       THEN /\ gen' = [gen EXCEPT !.frame = "running"]
            /\ consumer' = [consumer EXCEPT !.pulls = @ + 1]
       ELSE /\ gen' = gen
            /\ consumer' = [consumer EXCEPT !.pulls = @ + 1,
                              !.received = Append(@, StopIteration)]
    /\ UNCHANGED <<rag, documents, inp, result, calls, category_labels,
                 build_status, chunks, parent_child_map, files, uuids>>

\* Lines 286 / 321: context = self._build_context(context_docs)
ComposeContext ==
    /\ gen.frame = "running"
    /\ gen.pc = "context"
    /\ gen' = [gen EXCEPT
                 !.context = Return(build_context(gen.context_docs,
                                                  DefaultMaxLength)),
                 !.pc = "stream"]
    /\ calls' = Append(calls, Call("_build_context", <<gen.context_docs>>))
    /\ UNCHANGED <<rag, documents, op, inp, result, category_labels,
                 build_status, chunks, parent_child_map, files, uuids,
                 consumer>>

\* Lines 307 / 357, entering the loop: chain.stream(query) calls the backend.
OpenStream ==
    /\ gen.frame = "running"
    /\ gen.pc = "stream"
    /\ ~gen.opened
    /\ gen' = [gen EXCEPT !.opened = TRUE]
    /\ calls' = Append(calls, Call("chain.stream",
                                   <<gen.query, gen.context.value>>))
    /\ UNCHANGED <<rag, documents, op, inp, result, category_labels,
                 build_status, chunks, parent_child_map, files, uuids,
                 consumer>>

\* Lines 307 / 357, the for header: the next fragment of the backend, the end
\* of the loop, or the backend's exception, which leaves the body and
\* reaches the consumer's next().
NextFragment ==
    /\ gen.frame = "running"
    /\ gen.pc = "stream"
    /\ gen.opened
    /\ LET emitted == inp.env.answer
       IN  IF gen.fetched < Len(emitted.fragments)
           THEN /\ gen' = [gen EXCEPT
                            !.fetched = @ + 1,
                            !.chunk = Return(emitted.fragments[gen.fetched + 1]),
                            !.pc = "yield"]
                /\ UNCHANGED consumer
           ELSE IF emitted.ends = "raise"
           THEN /\ gen' = [gen EXCEPT !.frame = "raised"]
                /\ consumer' = [consumer EXCEPT !.received =
                       Append(@, Raise("Exception", stream_line(gen.fn)))]
           ELSE /\ gen' = [gen EXCEPT !.frame = "finished"]
                /\ consumer' = [consumer EXCEPT !.received =
                       Append(@, StopIteration)]
    /\ UNCHANGED <<rag, documents, op, inp, result, calls, category_labels,
                 build_status, chunks, parent_child_map, files, uuids>>

\* Lines 308 / 358: yield chunk.  next() returns the fragment and the body
\* stays suspended at the yield.
Yield ==
    /\ gen.frame = "running"
    /\ gen.pc = "yield"
    /\ gen' = [gen EXCEPT !.frame = "suspended", !.pc = "stream",
                          !.chunk = NoResult]
    /\ consumer' = [consumer EXCEPT !.received = Append(@, gen.chunk)]
    /\ UNCHANGED <<rag, documents, op, inp, result, calls, category_labels,
                 build_status, chunks, parent_child_map, files, uuids>>

\* The consumer leaves its loop and calls next() no more.
StopPulling ==
    /\ gen.frame \in {"created", "suspended", "finished", "raised"}
    /\ ~consumer.stopped
    /\ consumer' = [consumer EXCEPT !.stopped = TRUE]
    /\ UNCHANGED <<rag, documents, op, inp, result, calls, category_labels,
                 build_status, chunks, parent_child_map, files, uuids, gen>>

NextConsume ==
    \/ Ask
    \/ Pull
    \/ ComposeContext
    \/ OpenStream
    \/ NextFragment
    \/ Yield
    \/ StopPulling

SpecConsume == InitConsume /\ [][NextConsume]_vars

(***************************************************************************)
(* Failure propagation and lazy delivery, read from the calls made and     *)
(* from what the consumer's pulls gave.                                    *)
(***************************************************************************)
\* The backend stages, each as the calls that invoke it.
BackendStages ==
    { {"query_router"}, {"query_rewrite"}, SearchFns,
      {"llm.invoke", "chain.stream"} }

\* The fragments the generation backend emits in streaming mode.
Emitted == inp.env.answer.fragments

\* The stage invoked by the call fn has failed: the environment makes it
\* raise, and for the streamed answer the consumer has pulled past the last
\* fragment.
StageFailed(fn) ==
    CASE fn = "query_router" -> inp.env.router = Fails
      [] fn = "query_rewrite" -> inp.env.rewrite = Fails
      [] fn \in SearchFns -> inp.env.search = Fails
      [] fn = "llm.invoke" -> inp.env.answer = Fails
      [] fn = "chain.stream" -> /\ inp.env.answer.ends = "raise"
                                /\ consumer.pulls > Len(Emitted)
                                /\ gen.frame /= "running"
      [] OTHER -> FALSE

\* The lines of ask_question where the call fn is made.
StageLines(fn) ==
    CASE fn = "query_router" -> {163}
      [] fn = "query_rewrite" -> {174}
      [] fn \in SearchFns -> {181, 183}
      [] fn = "llm.invoke" -> {231, 237}
      [] OTHER -> {}

\* C21: if the router, the rewriter, retrieval or the generation backend
\* fails, the failure reaches the caller as raised (from ask_question, or from
\* the pull on the streamed answer during which the backend failed): there is
\* no default answer, the failing call is the last call made (no retry, no
\* later stage), and each backend stage is invoked at most once per question.
C21_FailuresPropagate ==
    op /= "none" =>
        /\ \A fns \in BackendStages : Cardinality(CallsOf(fns)) <= 1
        /\ \A k \in 1..Len(calls) :
               StageFailed(calls[k].fn) =>
                   /\ k = Len(calls)
                   /\ IF calls[k].fn = "chain.stream"
                      THEN /\ Len(consumer.received) = consumer.pulls
                           /\ consumer.received[Len(Emitted) + 1]
                                  = Raise("Exception", stream_line(result.fn))
                           /\ \A j \in 1..Len(consumer.received) :
                                  j > Len(Emitted) + 1 =>
                                      consumer.received[j] = StopIteration
                      ELSE /\ result.kind = "raise"
                           /\ result.error = "Exception"
                           /\ result.line \in StageLines(calls[k].fn)
                           /\ gen = NoGenerator

\* The backend failed after the first fragment of a streamed step-by-step
\* answer: the second pull raised, and a third pull called nothing again.
C21_Witness ==
    /\ op = "next"
    /\ result.fn = "generate_step_by_step_answer_stream"
    /\ Emitted = <<"a">>
    /\ consumer.received
           = <<Return("a"), Raise("Exception", 357), StopIteration>>
    /\ Cardinality(CallsOf({"chain.stream"})) = 1
    /\ calls[Len(calls)].fn = "chain.stream"

\* How many of the consumer's pulls gave a fragment.
Delivered ==
    Cardinality({k \in 1..Len(consumer.received) :
                     consumer.received[k].kind = "return"})

\* In every state of a streamed answer.
LazyState ==
    gen.frame /= "none" =>
        /\ consumer.pulls = 0 =>
               /\ gen.frame = "created"
               /\ gen.context = NoResult
               /\ CallsOf({"_build_context", "chain.stream", "llm.invoke"}) = {}
        /\ gen.fetched <= consumer.pulls
        /\ gen.frame /= "running" =>
               /\ gen.fetched = Delivered
               /\ Len(consumer.received) = consumer.pulls
        /\ Delivered <= Len(Emitted)
        /\ \A k \in 1..Delivered :
               consumer.received[k] = Return(Emitted[k])
        /\ consumer.stopped => gen.frame /= "running"

\* In every step: the producer moves only inside a pull, and not at all once
\* the consumer has stopped pulling.
LazyStep ==
    /\ (gen.frame \in {"created", "suspended"} /\ consumer'.pulls = consumer.pulls)
           => (gen' = gen /\ calls' = calls /\ consumer'.received = consumer.received)
    /\ consumer.stopped => (gen' = gen /\ calls' = calls /\ consumer' = consumer)

\* C22: in streaming mode with a non-empty retrieval ask_question returns a
\* lazy single-pass sequence: before the consumer's first pull no context is
\* composed and the generation backend is not called; a fragment is produced
\* only in response to a pull and the producer is suspended between pulls;
\* once the consumer stops pulling no further fragment is produced; the
\* fragments arrive in the order the backend emitted them, each exactly once.
C22_LazySinglePass == [](LazyState) /\ [][LazyStep]_vars

\* The consumer took the first of two equal fragments and stopped: the
\* producer is suspended at the yield with the second fragment not fetched.
C22_Witness ==
    /\ consumer.stopped
    /\ consumer.pulls = 1
    /\ Emitted = <<"a", "a">>
    /\ consumer.received = <<Return("a")>>
    /\ gen.frame = "suspended"
    /\ gen.fetched = 1

\* C23: from a freshly constructed system, initialize_system and then
\* build_knowledge_base, with every external index, embedding and file
\* operation succeeding, completes normally with the case-report and the
\* guideline retrieval modules set, whether a saved index is loaded or a new
\* one is built, so that ask_question passes its knowledge-base guard.
C23_BuildCompletes ==
    ( /\ op = "build_knowledge_base"
      /\ inp.load_index \in {"loaded", "absent"}
      /\ rag.case_report_data_module = Set
      /\ rag.guideline_data_module = Set
      /\ rag.index_module = Set
      /\ rag.guideline_index_module = Set
      /\ rag.generation_module = Set )
        => /\ result = Return(None)
           /\ build_status = "completed"
           /\ KnowledgeBaseBuilt(rag)

=============================================================================
